---- MODULE Spec2Model ----
(***************************************************************************)
(* Cinema booking microservice.                                            *)
(*                                                                         *)
(* The module models the server's seat ledger (Shows), the snapshot        *)
(* formatter (CinemaService), the booking service and message router       *)
(* (BookingService, MessageHandler), the WebSocket session/server pair     *)
(* (WebSocketSession, WebSocketServer) and the client-side Shows class.    *)
(*                                                                         *)
(* Text is a sequence of one-character strings, so that splitting,         *)
(* searching and integer parsing are computed as the C++ code computes     *)
(* them.  A std::vector<bool> seats is a sequence of BOOLEAN whose element *)
(* k is the C++ element seats[k-1], i.e. seat number k.                    *)
(***************************************************************************)
EXTENDS Integers, Sequences, FiniteSets, TLC

VARIABLES
    shows,            \* server: std::vector<Shows> shows (main.cpp)
    cshows,           \* client: Shows objects of the client library
    lastBookingResponse_,
                      \* client: CinemaClient::lastBookingResponse_
    ws_,              \* client: the messages in flight on CinemaClient::ws_
    last,             \* record of the most recent call and what it returned
    sessions_,        \* WebSocketServer::sessions_
    message_queue_,   \* WebSocketSession::message_queue_, per session
    writing_,         \* WebSocketSession::writing_, per session
    acceptPending,    \* sessions with an async_accept outstanding
    readPending,      \* sessions with an async_read outstanding
    writePending,     \* per session: the messages of the async_writes outstanding
    wire,             \* per session: every message handed to async_write, in order
    enqueued,         \* per session: every message passed to send_message, in order
    sold,             \* the booking requests answered with SUCCESS, in order
    created,          \* number of WebSocketSession objects constructed so far
    reads,            \* number of inbound messages dispatched so far
    pc,               \* per thread: position inside bookSeats / getAvailableSeats
    local,            \* per thread: the call's arguments and local variables
    seatsMutex        \* Shows::seatsMutex: exclusive owner and shared owners

clientVars == <<cshows, lastBookingResponse_, ws_>>
ledgerVars == <<shows, clientVars, last>>
hubVars == <<sessions_, message_queue_, writing_, acceptPending, readPending,
             writePending, wire, enqueued, sold, created, reads>>
threadVars == <<pc, local, seatsMutex>>
vars == <<shows, cshows, lastBookingResponse_, ws_, last, sessions_, message_queue_,
          writing_, acceptPending, readPending, writePending, wire, enqueued, sold, created, reads,
          pc, local, seatsMutex>>

-----------------------------------------------------------------------------
(* Program constants *)

\* seats.resize(20, false)
SeatCount == 20
\* uint8_t seat numbers: static_cast<uint8_t> wraps modulo 256
UInt8Range == 256

-----------------------------------------------------------------------------
(* Bounds of the model *)

\* longest seat list handed to bookSeats in the ledger specification
MaxSeatList == 2
\* main.cpp's catalog is built from the first NumTheaters theater names
NumTheaters == 2
\* ... and the first NumMovies movie names
NumMovies == 1
\* WebSocketSession objects the server creates (connections it accepts)
MaxSessions == 2
\* inbound messages the sessions dispatch in total
MaxReads == 2

-----------------------------------------------------------------------------
(* Catalog data of main.cpp and of the tests *)

\* "Inception"
Inception == <<"I", "n", "c", "e", "p", "t", "i", "o", "n">>
\* "Interstellar"
Interstellar == <<"I", "n", "t", "e", "r", "s", "t", "e", "l", "l", "a", "r">>
\* "Tenet"
Tenet == <<"T", "e", "n", "e", "t">>
\* "PVR"
PVR == <<"P", "V", "R">>
\* "IMAX"
IMAX == <<"I", "M", "A", "X">>
\* "Cinepolis"
Cinepolis == <<"C", "i", "n", "e", "p", "o", "l", "i", "s">>
\* "2025-09-11 19:30"
ShowTime == <<"2", "0", "2", "5", "-", "0", "9", "-", "1", "1", " ", "1", "9", ":", "3", "0">>

movieNames == <<Inception, Interstellar, Tenet>>
theaterNames == <<PVR, IMAX, Cinepolis>>

pattern1 == <<TRUE, TRUE, FALSE, FALSE, TRUE,
              FALSE, FALSE, FALSE, FALSE, TRUE,
              TRUE, FALSE, FALSE, TRUE, TRUE,
              FALSE, FALSE, FALSE, TRUE, FALSE>>

pattern2 == <<FALSE, TRUE, FALSE, TRUE, FALSE,
              TRUE, FALSE, TRUE, TRUE, FALSE,
              FALSE, TRUE, TRUE, FALSE, FALSE,
              TRUE, TRUE, FALSE, FALSE, TRUE>>

pattern3 == <<TRUE, FALSE, TRUE, TRUE, TRUE,
              FALSE, TRUE, TRUE, FALSE, TRUE,
              TRUE, FALSE, TRUE, TRUE, TRUE,
              FALSE, FALSE, TRUE, TRUE, TRUE>>

patterns == <<pattern1, pattern2, pattern3>>

\* std::vector<bool> allOccupied(20, true) of test_shows_edge_cases
allOccupied == [k \in 1..20 |-> TRUE]

\* the pattern of test_shows_booking_failures: seats 1 and 3 booked
failuresPattern == [k \in 1..20 |-> k \in {1, 3}]

-----------------------------------------------------------------------------
(* Shows: the seat ledger (server/lib/cinema.cpp) *)

\* Shows::Shows: the three strings and seats.resize(20, false)
ShowsCtor(m, dt, t) ==
    [movie |-> m, dateTime |-> dt, theater |-> t,
     seats |-> [k \in 1..SeatCount |-> FALSE]]

\* static_cast<uint8_t>(n)
ToUInt8(n) == n % UInt8Range

RECURSIVE GetAvailableSeatsLoopZeroBased(_, _, _)
\* faulty variant of GetAvailableSeatsLoop: pushes the index i instead of i + 1
GetAvailableSeatsLoopZeroBased(seats, i, availableSeats) ==
    IF i >= Len(seats) THEN availableSeats
    ELSE GetAvailableSeatsLoopZeroBased(seats, i + 1,
            IF ~seats[i + 1] THEN Append(availableSeats, ToUInt8(i))
            ELSE availableSeats)

RECURSIVE GetAvailableSeatsLoop(_, _, _)
\* the for loop of getAvailableSeats: i is the C++ index, seats[i] is element i+1
GetAvailableSeatsLoop(seats, i, availableSeats) ==
    IF i >= Len(seats) THEN availableSeats
    ELSE GetAvailableSeatsLoop(seats, i + 1,
            IF ~seats[i + 1] THEN Append(availableSeats, ToUInt8(i + 1))
            ELSE availableSeats)

\* Shows::getAvailableSeats
GetAvailableSeats(seats) == GetAvailableSeatsLoop(seats, 0, <<>>)

RECURSIVE BookSeatsCheckOffByOne(_, _, _)
\* faulty variant of BookSeatsCheck: seat >= seats.size() refuses seat 20
BookSeatsCheckOffByOne(seats, seatNumbers, k) ==
    IF k > Len(seatNumbers) THEN TRUE
    ELSE IF seatNumbers[k] < 1 \/ seatNumbers[k] >= Len(seats) \/ seats[seatNumbers[k]]
         THEN FALSE
         ELSE BookSeatsCheckOffByOne(seats, seatNumbers, k + 1)

RECURSIVE BookSeatsCheckRangeOnly(_, _, _)
\* a first loop that tests the range of each seat and not whether it is booked
BookSeatsCheckRangeOnly(seats, seatNumbers, k) ==
    IF k > Len(seatNumbers) THEN TRUE
    ELSE IF seatNumbers[k] < 1 \/ seatNumbers[k] > Len(seats)
         THEN FALSE
         ELSE BookSeatsCheckRangeOnly(seats, seatNumbers, k + 1)

RECURSIVE BookSeatsCheck(_, _, _)
\* first loop of bookSeats: FALSE at the first seat out of range or booked
BookSeatsCheck(seats, seatNumbers, k) ==
    IF k > Len(seatNumbers) THEN TRUE
    ELSE IF seatNumbers[k] < 1 \/ seatNumbers[k] > Len(seats) \/ seats[seatNumbers[k]]
         THEN FALSE
         ELSE BookSeatsCheck(seats, seatNumbers, k + 1)

RECURSIVE BookSeatsMark(_, _, _)
\* second loop of bookSeats: seats[seat - 1] = true for each seat
BookSeatsMark(seats, seatNumbers, k) ==
    IF k > Len(seatNumbers) THEN seats
    ELSE BookSeatsMark([seats EXCEPT ![seatNumbers[k]] = TRUE], seatNumbers, k + 1)

RECURSIVE BookSeatsEagerLoop(_, _, _)
BookSeatsEagerLoop(seats, seatNumbers, k) ==
    IF k > Len(seatNumbers) THEN [ret |-> TRUE, seats |-> seats]
    ELSE IF seatNumbers[k] < 1 \/ seatNumbers[k] > Len(seats) \/ seats[seatNumbers[k]]
         THEN [ret |-> FALSE, seats |-> seats]
         ELSE BookSeatsEagerLoop([seats EXCEPT ![seatNumbers[k]] = TRUE], seatNumbers, k + 1)

\* faulty variant of BookSeats: one loop that marks each seat as soon as it has passed
BookSeatsEager(seats, seatNumbers) == BookSeatsEagerLoop(seats, seatNumbers, 1)

\* Shows::bookSeats: the returned bool and the seats vector afterwards
\* faulty variant of BookSeats: a refused call clears the seats it was asked for
BookSeatsRollsBack(seats, seatNumbers) ==
    IF BookSeatsCheck(seats, seatNumbers, 1)
    THEN [ret |-> TRUE, seats |-> BookSeatsMark(seats, seatNumbers, 1)]
    ELSE [ret |-> FALSE,
          seats |-> [n \in 1..Len(seats) |->
                        seats[n] /\ \A k \in 1..Len(seatNumbers) : seatNumbers[k] # n]]

BookSeats(seats, seatNumbers) ==
    IF BookSeatsCheck(seats, seatNumbers, 1)
    THEN [ret |-> TRUE, seats |-> BookSeatsMark(seats, seatNumbers, 1)]
    ELSE [ret |-> FALSE, seats |-> seats]

\* faulty variant of UpdateSeatAvailability: the size comparison is missing
UpdateSeatAvailabilityUnchecked(seats, seatStatus) == seatStatus

\* client Shows::updateSeatAvailability
UpdateSeatAvailability(seats, seatStatus) ==
    IF Len(seatStatus) = Len(seats) THEN seatStatus ELSE seats

-----------------------------------------------------------------------------
(* Values the variables of a component take while a specification does not use it *)

ClientOff ==
    /\ lastBookingResponse_ = <<>>
    /\ ws_ = <<>>

HubOff ==
    /\ sessions_ = {}
    /\ message_queue_ = <<>>
    /\ writing_ = <<>>
    /\ acceptPending = {}
    /\ readPending = {}
    /\ writePending = <<>>
    /\ wire = <<>>
    /\ enqueued = <<>>
    /\ sold = <<>>
    /\ created = 0
    /\ reads = 0

ThreadsOff ==
    /\ pc = <<>>
    /\ local = <<>>
    /\ seatsMutex = <<>>

NoCall == [op |-> "none", arg |-> <<>>, before |-> <<>>, ret |-> FALSE]

-----------------------------------------------------------------------------
(* SpecLedger: one server Shows object and one client Shows object, called   *)
(* with seat lists and status vectors drawn from bounded sets                *)

\* seat numbers a caller may pass (uint8_t): both ends of the range and beyond
SeatValues == {0, 1, 2, 20, 21, 255}

SeatLists == UNION {[1..m -> SeatValues] : m \in 0..MaxSeatList}

\* seat vectors assigned to show.seats by main.cpp and by the tests
LedgerPatterns ==
    {ShowsCtor(Inception, ShowTime, PVR).seats, pattern1, pattern2, pattern3,
     allOccupied, failuresPattern}

\* status vectors handed to updateSeatAvailability, of size 20 and of other sizes
StatusVectors ==
    {<<>>, [k \in 1..(SeatCount - 1) |-> TRUE], [k \in 1..(SeatCount + 1) |-> FALSE],
     pattern1, allOccupied}

LedgerInit ==
    /\ shows \in {<<[ShowsCtor(Inception, ShowTime, PVR) EXCEPT !.seats = p]>> :
                    p \in LedgerPatterns}
    /\ cshows = <<ShowsCtor(Inception, ShowTime, PVR)>>
    /\ ClientOff
    /\ last = NoCall
    /\ HubOff
    /\ ThreadsOff

\* show.bookSeats(seatNumbers)
LedgerBookSeats(seatNumbers) ==
    \E r \in {BookSeats(shows[1].seats, seatNumbers)} :
    /\ shows' = [shows EXCEPT ![1].seats = r.seats]
    /\ last' = [op |-> "bookSeats", arg |-> seatNumbers,
                before |-> shows[1].seats, ret |-> r.ret]
    /\ UNCHANGED <<clientVars, hubVars, threadVars>>

\* show.getAvailableSeats()
LedgerGetAvailableSeats ==
    /\ last' = [op |-> "getAvailableSeats", arg |-> <<>>,
                before |-> shows[1].seats, ret |-> GetAvailableSeats(shows[1].seats)]
    /\ UNCHANGED <<shows, clientVars, hubVars, threadVars>>

\* currentShow->updateSeatAvailability(seatStatus) on the client
LedgerUpdateSeatAvailability(seatStatus) ==
    /\ cshows' = [cshows EXCEPT ![1].seats = UpdateSeatAvailability(@, seatStatus)]
    /\ last' = [op |-> "updateSeatAvailability", arg |-> seatStatus,
                before |-> cshows[1].seats, ret |-> FALSE]
    /\ UNCHANGED <<shows, lastBookingResponse_, ws_, hubVars, threadVars>>

LedgerNext ==
    \/ \E seatNumbers \in SeatLists : LedgerBookSeats(seatNumbers)
    \/ LedgerGetAvailableSeats
    \/ \E seatStatus \in StatusVectors : LedgerUpdateSeatAvailability(seatStatus)

SpecLedger == LedgerInit /\ [][LedgerNext]_vars

\* the elements of a sequence
Range(s) == {s[k] : k \in 1..Len(s)}

\* C1: bookSeats(S) returns true iff every element of S is in [1,20] and
\* available before the call; when it returns true, exactly the seats of S
\* become booked and every other seat keeps its value.
C1_BookSeatsIff ==
    last.op = "bookSeats" =>
        LET S == last.arg
            A == last.before
            after == shows[1].seats
        IN /\ last.ret <=> \A k \in 1..Len(S) : S[k] \in 1..20 /\ ~A[S[k]]
           /\ last.ret => \A n \in 1..20 :
                             after[n] = IF n \in Range(S) THEN TRUE ELSE A[n]

\* a successful call that booked two different seats
C1_Witness ==
    /\ last.op = "bookSeats"
    /\ last.ret
    /\ Len(last.arg) = 2
    /\ last.arg[1] # last.arg[2]
    /\ shows[1].seats # last.before

\* C2: whenever bookSeats(S) returns false the ledger is exactly as it was
\* before the call, whatever the position of the offending seat in S.
C2_AllOrNothing ==
    (last.op = "bookSeats" /\ ~last.ret) => shows[1].seats = last.before

\* a refused call whose first seat was valid and available and whose second was not
C2_Witness ==
    /\ last.op = "bookSeats"
    /\ ~last.ret
    /\ Len(last.arg) = 2
    /\ last.arg[1] \in 1..20
    /\ ~last.before[last.arg[1]]
    /\ last.arg[2] \notin 1..20

\* C5: getAvailableSeats() of every show is strictly ascending, within [1,20],
\* and its complement within [1,20] is the set of booked seats.
C5_AvailableSeatsSorted ==
    \A i \in 1..Len(shows) :
        LET a == GetAvailableSeats(shows[i].seats) IN
        /\ \A k \in 1..(Len(a) - 1) : a[k] < a[k + 1]
        /\ Range(a) \subseteq 1..20
        /\ (1..20) \ Range(a) = {n \in 1..20 : shows[i].seats[n]}

\* getAvailableSeats was called on a ledger with booked and available seats
C5_Witness ==
    /\ last.op = "getAvailableSeats"
    /\ last.before = shows[1].seats
    /\ last.ret = GetAvailableSeats(shows[1].seats)
    /\ Len(last.ret) \in 1..19

\* C6: every seat bitmap has exactly 20 positions; the constructor creates 20
\* available seats; updateSeatAvailability with a vector of another size leaves
\* the bitmap untouched.
C6_TwentySeats ==
    /\ \A i \in 1..Len(shows) : Len(shows[i].seats) = 20
    /\ \A i \in 1..Len(cshows) : Len(cshows[i].seats) = 20
    /\ last.op = "none" => \A n \in 1..20 : ~cshows[1].seats[n]
    /\ (last.op = "updateSeatAvailability" /\ Len(last.arg) # 20) =>
            cshows[1].seats = last.before

\* updateSeatAvailability was given 21 entries after an update had been applied
C6_Witness ==
    /\ last.op = "updateSeatAvailability"
    /\ Len(last.arg) = 21
    /\ last.before = pattern1
    /\ cshows[1].seats = pattern1

-----------------------------------------------------------------------------
(* SpecThreads: two threads that each call bookSeats and one thread that     *)
(* calls getAvailableSeats, all on the same Shows object, one statement at   *)
(* a time under std::shared_mutex                                            *)

\* the two callers of bookSeats
Callers == {1, 2}
\* the thread that reads (main.cpp prints the free seats while the reactor runs)
Reader == 3
Threads == Callers \cup {Reader}

\* seat lists the two callers pass: those of test_shows_thread_safety_simulation,
\* and lists with a duplicate, an out-of-range seat and a seat main.cpp seeds booked
CallerSeatLists ==
    {<<1, 2, 3>>, <<3, 4, 5>>, <<3>>, <<4, 3>>, <<3, 3>>, <<4, 21>>, <<6, 7>>, <<>>}

\* std::shared_mutex with nobody holding it
Unlocked == [exclusive |-> 0, shared |-> {}]

\* faulty variant of CanLockExclusive: a second exclusive owner is let in
CanLockExclusiveTwice(mutex) == mutex.shared = {}

\* std::unique_lock<std::shared_mutex> can be taken: no owner of either kind
CanLockExclusive(mutex) == mutex.exclusive = 0 /\ mutex.shared = {}

\* faulty variant of CanLockShared: the reader does not wait for the exclusive owner
CanLockSharedAlways(mutex) == TRUE

\* std::shared_lock<std::shared_mutex> can be taken: no exclusive owner
CanLockShared(mutex) == mutex.exclusive = 0

NotCalled ==
    [seatNumbers |-> <<>>, k |-> 0, ret |-> "none", availableSeats |-> <<>>, i |-> 0,
     during |-> {}]

\* threads that are inside a call
Running == {t \in Threads : pc[t] \notin {"idle", "done"}}

ThreadsInit ==
    /\ shows \in {<<[ShowsCtor(Inception, ShowTime, PVR) EXCEPT !.seats = p]>> :
                    p \in {ShowsCtor(Inception, ShowTime, PVR).seats, pattern1}}
    /\ cshows = <<>>
    /\ ClientOff
    /\ last = [op |-> "start", arg |-> <<>>, before |-> shows[1].seats, ret |-> FALSE]
    /\ HubOff
    /\ pc = [t \in Threads |-> "idle"]
    /\ local = [t \in Threads |-> NotCalled]
    /\ seatsMutex = Unlocked

\* a caller enters bookSeats(seatNumbers)
CallBookSeats(t, seatNumbers) ==
    /\ pc[t] = "idle"
    /\ pc' = [pc EXCEPT ![t] = "book_lock"]
    /\ local' = [local EXCEPT ![t] = [NotCalled EXCEPT !.seatNumbers = seatNumbers,
                                                       !.during = Running]]
    /\ UNCHANGED <<ledgerVars, hubVars, seatsMutex>>

\* std::unique_lock<std::shared_mutex> lock(*seatsMutex)
BookLock(t) ==
    /\ pc[t] = "book_lock"
    /\ CanLockExclusive(seatsMutex)
    /\ seatsMutex' = [seatsMutex EXCEPT !.exclusive = t]
    /\ pc' = [pc EXCEPT ![t] = "book_check"]
    /\ local' = [local EXCEPT ![t].k = 1]
    /\ UNCHANGED <<ledgerVars, hubVars>>

\* one iteration of the first loop of bookSeats; return false releases the lock
BookCheck(t) ==
    LET seatNumbers == local[t].seatNumbers
        k == local[t].k
        seats == shows[1].seats
    IN
    /\ pc[t] = "book_check"
    /\ IF k > Len(seatNumbers)
       THEN /\ pc' = [pc EXCEPT ![t] = "book_mark"]
            /\ local' = [local EXCEPT ![t].k = 1]
            /\ UNCHANGED seatsMutex
       ELSE IF seatNumbers[k] < 1 \/ seatNumbers[k] > Len(seats) \/ seats[seatNumbers[k]]
            THEN /\ pc' = [pc EXCEPT ![t] = "done"]
                 /\ local' = [local EXCEPT ![t].ret = "false"]
                 /\ seatsMutex' = [seatsMutex EXCEPT !.exclusive =
                                        IF @ = t THEN 0 ELSE @]
            ELSE /\ local' = [local EXCEPT ![t].k = k + 1]
                 /\ UNCHANGED <<pc, seatsMutex>>
    /\ UNCHANGED <<ledgerVars, hubVars>>

\* one iteration of the second loop of bookSeats; return true releases the lock
BookMark(t) ==
    LET seatNumbers == local[t].seatNumbers
        k == local[t].k
    IN
    /\ pc[t] = "book_mark"
    /\ IF k > Len(seatNumbers)
       THEN /\ pc' = [pc EXCEPT ![t] = "done"]
            /\ local' = [local EXCEPT ![t].ret = "true"]
            /\ seatsMutex' = [seatsMutex EXCEPT !.exclusive = IF @ = t THEN 0 ELSE @]
            /\ UNCHANGED shows
       ELSE /\ shows' = [shows EXCEPT ![1].seats[seatNumbers[k]] = TRUE]
            /\ local' = [local EXCEPT ![t].k = k + 1]
            /\ UNCHANGED <<pc, seatsMutex>>
    /\ UNCHANGED <<clientVars, last, hubVars>>

\* the reader enters getAvailableSeats()
CallGetAvailableSeats(t) ==
    /\ pc[t] = "idle"
    /\ pc' = [pc EXCEPT ![t] = "get_lock"]
    /\ local' = [local EXCEPT ![t] = [NotCalled EXCEPT !.during = Running]]
    /\ UNCHANGED <<ledgerVars, hubVars, seatsMutex>>

\* std::shared_lock<std::shared_mutex> lock(*seatsMutex)
GetLock(t) ==
    /\ pc[t] = "get_lock"
    /\ CanLockShared(seatsMutex)
    /\ seatsMutex' = [seatsMutex EXCEPT !.shared = @ \cup {t}]
    /\ pc' = [pc EXCEPT ![t] = "get_loop"]
    /\ local' = [local EXCEPT ![t].i = 0]
    /\ UNCHANGED <<ledgerVars, hubVars>>

\* one iteration of the loop of getAvailableSeats; the return releases the lock
GetLoop(t) ==
    LET i == local[t].i
        seats == shows[1].seats
    IN
    /\ pc[t] = "get_loop"
    /\ IF i >= Len(seats)
       THEN /\ pc' = [pc EXCEPT ![t] = "done"]
            /\ local' = [local EXCEPT ![t].ret = "returned"]
            /\ seatsMutex' = [seatsMutex EXCEPT !.shared = @ \ {t}]
       ELSE /\ local' = [local EXCEPT ![t].i = i + 1,
                                      ![t].availableSeats =
                                          IF ~seats[i + 1] THEN Append(@, ToUInt8(i + 1))
                                          ELSE @]
            /\ UNCHANGED <<pc, seatsMutex>>
    /\ UNCHANGED <<ledgerVars, hubVars>>

ThreadsNext ==
    \/ \E t \in Callers, seatNumbers \in CallerSeatLists : CallBookSeats(t, seatNumbers)
    \/ \E t \in Callers : BookLock(t)
    \/ \E t \in Callers : BookCheck(t)
    \/ \E t \in Callers : BookMark(t)
    \/ CallGetAvailableSeats(Reader)
    \/ GetLock(Reader)
    \/ GetLoop(Reader)

SpecThreads == ThreadsInit /\ [][ThreadsNext]_vars

\* every seat of the list is in [1,20] and available in the ledger
Bookable(seats, seatNumbers) ==
    \A k \in 1..Len(seatNumbers) : seatNumbers[k] \in 1..20 /\ ~seats[seatNumbers[k]]

\* both callers have returned and their seat lists share a seat
BothReturnedOverlapping ==
    /\ pc[1] = "done"
    /\ pc[2] = "done"
    /\ Range(local[1].seatNumbers) \cap Range(local[2].seatNumbers) # {}

\* C3 as stated: of two bookSeats calls with overlapping seat sets, exactly one
\* returns success.
C3_ExactlyOneSucceeds ==
    BothReturnedOverlapping =>
        (local[1].ret = "true") # (local[2].ret = "true")

\* C3 as amended: of two bookSeats calls with overlapping seat sets at most one
\* returns success, and exactly one does when every seat of both lists is in
\* [1,20] and available before the two calls.
C3_AtMostOneSucceeds ==
    BothReturnedOverlapping =>
        /\ ~(local[1].ret = "true" /\ local[2].ret = "true")
        /\ (Bookable(last.before, local[1].seatNumbers)
              /\ Bookable(last.before, local[2].seatNumbers))
            => (local[1].ret = "true") # (local[2].ret = "true")

\* two overlapping, individually bookable calls that ran at the same time: the
\* second was entered while the first was inside bookSeats, and the first lost
C3_Witness ==
    /\ BothReturnedOverlapping
    /\ Bookable(last.before, local[1].seatNumbers)
    /\ Bookable(last.before, local[2].seatNumbers)
    /\ 1 \in local[2].during
    /\ local[1].ret = "false"
    /\ local[2].ret = "true"

-----------------------------------------------------------------------------
(* Text: std::string as a sequence of characters *)

\* largest int: std::stoi throws std::out_of_range beyond it
IntMax == 2147483647

Digits == <<"0", "1", "2", "3", "4", "5", "6", "7", "8", "9">>

IsDigit(c) == c \in Range(Digits)

DigitValue(c) == CHOOSE d \in 0..9 : Digits[d + 1] = c

\* std::isspace in the "C" locale
IsSpace(c) == c \in {" ", "\t", "\n", "\r", "\f"}

Min(S) == CHOOSE x \in S : \A y \in S : x <= y

RECURSIVE to_string(_)
\* std::to_string / operator<< of a non-negative integer: its decimal digits
to_string(n) ==
    IF n < 10 THEN <<Digits[n + 1]>>
    ELSE to_string(n \div 10) \o <<Digits[(n % 10) + 1]>>

\* std::string::npos
npos == -1

\* pat occurs in s at the C++ position p (first character is position 0)
OccursAt(s, pat, p) ==
    /\ p + Len(pat) <= Len(s)
    /\ Len(pat) = 0 \/ s[p + 1] = pat[1]
    /\ SubSeq(s, p + 1, p + Len(pat)) = pat

\* s.find(pat): the first position at which pat occurs, or npos
Find(s, pat) ==
    LET hits == {p \in 0..Len(s) : OccursAt(s, pat, p)} IN
    IF hits = {} THEN npos ELSE Min(hits)

RECURSIVE GetlineLoop(_, _, _, _)
\* while (std::getline(ss, item, delim)) parts.push_back(item): pos is the next
\* character to read; getline fails once nothing is left to extract
GetlineLoop(s, delim, pos, parts) ==
    IF pos > Len(s) THEN parts
    ELSE LET delims == {q \in pos..Len(s) : s[q] = delim}
             stop == IF delims = {} THEN Len(s) + 1 ELSE Min(delims)
         IN GetlineLoop(s, delim, stop + 1, Append(parts, SubSeq(s, pos, stop - 1)))

RECURSIVE DigitsValue(_, _, _, _)
\* the value of the digits str[p..stop-1] added to acc, left to right; -1 stands
\* for IntMax + 1 (only -(IntMax + 1) is an int) and -2 for anything larger
DigitsValue(str, p, stop, acc) ==
    IF p >= stop THEN acc
    ELSE LET d == DigitValue(str[p])
             next == IF acc < 0 THEN -2
                     ELSE IF acc > (IntMax - d) \div 10
                          THEN (IF acc = IntMax \div 10 /\ d = (IntMax % 10) + 1
                                THEN -1 ELSE -2)
                          ELSE acc * 10 + d
         IN DigitsValue(str, p + 1, stop, next)

\* std::stoi(str): leading white space is skipped, then an optional sign, then
\* the longest run of digits; what follows the digits is ignored.  ok is FALSE
\* when it throws (std::invalid_argument: no digits; std::out_of_range).
Stoi(str) ==
    LET n == Len(str)
        start == Min({p \in 1..(n + 1) : p = n + 1 \/ ~IsSpace(str[p])})
        signed == start <= n /\ str[start] \in {"+", "-"}
        negative == signed /\ str[start] = "-"
        first == IF signed THEN start + 1 ELSE start
        stop == Min({p \in first..(n + 1) : p = n + 1 \/ ~IsDigit(str[p])})
        magnitude == DigitsValue(str, first, stop, 0)
    IN IF stop = first THEN [ok |-> FALSE, val |-> 0]
       ELSE IF magnitude = -2 \/ (magnitude = -1 /\ ~negative) THEN [ok |-> FALSE, val |-> 0]
       ELSE IF magnitude = -1 THEN [ok |-> TRUE, val |-> 0 - IntMax - 1]
       ELSE [ok |-> TRUE, val |-> IF negative THEN 0 - magnitude ELSE magnitude]

-----------------------------------------------------------------------------
(* CinemaService: the snapshot formatter (server/lib/cinema.cpp) *)

\* "=== CINEMA DATA STREAM ===\n"
CINEMA_DATA_STREAM == <<"=", "=", "=", " ", "C", "I", "N", "E", "M", "A", " ", "D", "A", "T", "A", " ", "S", "T", "R", "E", "A", "M", " ", "=", "=", "=", "\n">>
\* "=== END CINEMA DATA ===\n"
END_CINEMA_DATA == <<"=", "=", "=", " ", "E", "N", "D", " ", "C", "I", "N", "E", "M", "A", " ", "D", "A", "T", "A", " ", "=", "=", "=", "\n">>
\* "BOOKING_UPDATE:\n=== UPDATED CINEMA DATA ===\n"
UPDATED_CINEMA_DATA == <<"B", "O", "O", "K", "I", "N", "G", "_", "U", "P", "D", "A", "T", "E", ":", "\n", "=", "=", "=", " ", "U", "P", "D", "A", "T", "E", "D", " ", "C", "I", "N", "E", "M", "A", " ", "D", "A", "T", "A", " ", "=", "=", "=", "\n">>
\* "=== END UPDATED DATA ===\n"
END_UPDATED_DATA == <<"=", "=", "=", " ", "E", "N", "D", " ", "U", "P", "D", "A", "T", "E", "D", " ", "D", "A", "T", "A", " ", "=", "=", "=", "\n">>
\* "Theater: "
THEATER_PREFIX == <<"T", "h", "e", "a", "t", "e", "r", ":", " ">>
\* "  Movie: "
MOVIE_PREFIX == <<" ", " ", "M", "o", "v", "i", "e", ":", " ">>
\* "    Available seats: "
AVAILABLE_SEATS == <<" ", " ", " ", " ", "A", "v", "a", "i", "l", "a", "b", "l", "e", " ", "s", "e", "a", "t", "s", ":", " ">>
\* "SOLD OUT"
SOLD_OUT == <<"S", "O", "L", "D", " ", "O", "U", "T">>
\* " (Total: "
TOTAL_PREFIX == <<" ", "(", "T", "o", "t", "a", "l", ":", " ">>
\* "/20)\n"
TOTAL_SUFFIX == <<"/", "2", "0", ")", "\n">>

RECURSIVE TheatersLoopNoDedup(_, _, _)
\* faulty variant of TheatersLoop: every show's theater is pushed, seen or not
TheatersLoopNoDedup(catalog, i, theaters) ==
    IF i > Len(catalog) THEN theaters
    ELSE TheatersLoopNoDedup(catalog, i + 1, Append(theaters, catalog[i].theater))

RECURSIVE TheatersLoop(_, _, _)
\* the theaters of the show list in order of first occurrence
TheatersLoop(catalog, i, theaters) ==
    IF i > Len(catalog) THEN theaters
    ELSE TheatersLoop(catalog, i + 1,
            IF catalog[i].theater \notin Range(theaters)
            THEN Append(theaters, catalog[i].theater)
            ELSE theaters)

RECURSIVE FormatSeatNumbers(_, _)
\* for (i = 0; i < availableSeats.size(); ++i) ss << int(availableSeats[i]) [<< ", "]
FormatSeatNumbers(availableSeats, i) ==
    IF i >= Len(availableSeats) THEN <<>>
    ELSE to_string(availableSeats[i + 1])
         \o (IF i < Len(availableSeats) - 1 THEN <<",", " ">> ELSE <<>>)
         \o FormatSeatNumbers(availableSeats, i + 1)

\* faulty variant of FormatShow: no SOLD OUT for a show without available seats
FormatShowNeverSoldOut(show) ==
    LET availableSeats == GetAvailableSeats(show.seats) IN
    MOVIE_PREFIX \o show.movie \o <<" ", "(">> \o show.dateTime \o <<")", "\n">>
    \o AVAILABLE_SEATS
    \o FormatSeatNumbers(availableSeats, 0)
    \o TOTAL_PREFIX \o to_string(Len(availableSeats)) \o TOTAL_SUFFIX

\* the two lines written for one show
FormatShow(show) ==
    LET availableSeats == GetAvailableSeats(show.seats) IN
    MOVIE_PREFIX \o show.movie \o <<" ", "(">> \o show.dateTime \o <<")", "\n">>
    \o AVAILABLE_SEATS
    \o (IF availableSeats = <<>> THEN SOLD_OUT ELSE FormatSeatNumbers(availableSeats, 0))
    \o TOTAL_PREFIX \o to_string(Len(availableSeats)) \o TOTAL_SUFFIX

RECURSIVE FormatTheaterShows(_, _, _)
\* for (show : shows) if (show.theater == theaterName) ...
FormatTheaterShows(catalog, theaterName, i) ==
    IF i > Len(catalog) THEN <<>>
    ELSE (IF catalog[i].theater = theaterName THEN FormatShow(catalog[i]) ELSE <<>>)
         \o FormatTheaterShows(catalog, theaterName, i + 1)

RECURSIVE FormatTheaters(_, _, _)
\* for (theaterName : theaters): the theater line, its shows, a blank line
FormatTheaters(catalog, theaters, j) ==
    IF j > Len(theaters) THEN <<>>
    ELSE THEATER_PREFIX \o theaters[j] \o <<"\n">>
         \o FormatTheaterShows(catalog, theaters[j], 1)
         \o <<"\n">>
         \o FormatTheaters(catalog, theaters, j + 1)

\* CinemaService::formatCinemaData
FormatCinemaData(catalog) ==
    CINEMA_DATA_STREAM
    \o FormatTheaters(catalog, TheatersLoop(catalog, 1, <<>>), 1)
    \o END_CINEMA_DATA

\* CinemaService::formatUpdateData
FormatUpdateData(catalog) ==
    UPDATED_CINEMA_DATA
    \o FormatTheaters(catalog, TheatersLoop(catalog, 1, <<>>), 1)
    \o END_UPDATED_DATA

-----------------------------------------------------------------------------
(* BookingService and MessageHandler (server/lib/cinema.cpp) *)

\* "ERROR: Invalid booking format. Use: theater,movie,seat1,seat2,...\n\n"
ERR_FORMAT == <<"E", "R", "R", "O", "R", ":", " ", "I", "n", "v", "a", "l", "i", "d", " ", "b", "o", "o", "k", "i", "n", "g", " ", "f", "o", "r", "m", "a", "t", ".", " ", "U", "s", "e", ":", " ", "t", "h", "e", "a", "t", "e", "r", ",", "m", "o", "v", "i", "e", ",", "s", "e", "a", "t", "1", ",", "s", "e", "a", "t", "2", ",", ".", ".", ".", "\n", "\n">>
\* "ERROR: Invalid seat number "
ERR_SEAT_NUMBER == <<"E", "R", "R", "O", "R", ":", " ", "I", "n", "v", "a", "l", "i", "d", " ", "s", "e", "a", "t", " ", "n", "u", "m", "b", "e", "r", " ">>
\* ". Must be 1-20.\n\n"
ERR_SEAT_NUMBER_TAIL == <<".", " ", "M", "u", "s", "t", " ", "b", "e", " ", "1", "-", "2", "0", ".", "\n", "\n">>
\* "ERROR: Invalid seat number format: "
ERR_SEAT_FORMAT == <<"E", "R", "R", "O", "R", ":", " ", "I", "n", "v", "a", "l", "i", "d", " ", "s", "e", "a", "t", " ", "n", "u", "m", "b", "e", "r", " ", "f", "o", "r", "m", "a", "t", ":", " ">>
\* "SUCCESS: Booked seats "
SUCCESS_BOOKED == <<"S", "U", "C", "C", "E", "S", "S", ":", " ", "B", "o", "o", "k", "e", "d", " ", "s", "e", "a", "t", "s", " ">>
\* " for "
FOR_ == <<" ", "f", "o", "r", " ">>
\* " at "
AT_ == <<" ", "a", "t", " ">>
\* "ERROR: One or more seats are already booked or invalid\n\n"
ERR_ALREADY_BOOKED == <<"E", "R", "R", "O", "R", ":", " ", "O", "n", "e", " ", "o", "r", " ", "m", "o", "r", "e", " ", "s", "e", "a", "t", "s", " ", "a", "r", "e", " ", "a", "l", "r", "e", "a", "d", "y", " ", "b", "o", "o", "k", "e", "d", " ", "o", "r", " ", "i", "n", "v", "a", "l", "i", "d", "\n", "\n">>
\* "ERROR: Show not found - "
ERR_NOT_FOUND == <<"E", "R", "R", "O", "R", ":", " ", "S", "h", "o", "w", " ", "n", "o", "t", " ", "f", "o", "u", "n", "d", " ", "-", " ">>
\* "get_data"
GET_DATA == <<"g", "e", "t", "_", "d", "a", "t", "a">>
\* "refresh"
REFRESH == <<"r", "e", "f", "r", "e", "s", "h">>
\* "Echo: "
ECHO == <<"E", "c", "h", "o", ":", " ">>
\* "\n\n"
BLANK_LINE == <<"\n", "\n">>

RECURSIVE ParseSeatsLoop(_, _, _)
\* for (i = 2; i < parts.size(); ++i): std::stoi(parts[i]) inside try/catch, then
\* the range test; parts[i] of the C++ code is element i + 1 here.  ok is FALSE
\* with the text of the error when the loop returned early.
ParseSeatsLoop(parts, i, seatNumbers) ==
    IF i >= Len(parts) THEN [ok |-> TRUE, seatNumbers |-> seatNumbers, error |-> <<>>]
    ELSE LET parsed == Stoi(parts[i + 1]) IN
         IF ~parsed.ok
         THEN [ok |-> FALSE, seatNumbers |-> seatNumbers,
               error |-> ERR_SEAT_FORMAT \o parts[i + 1] \o BLANK_LINE]
         ELSE IF parsed.val > 0 /\ parsed.val <= 20
              THEN ParseSeatsLoop(parts, i + 1, Append(seatNumbers, ToUInt8(parsed.val)))
              ELSE [ok |-> FALSE, seatNumbers |-> seatNumbers,
                    error |-> ERR_SEAT_NUMBER \o parts[i + 1] \o ERR_SEAT_NUMBER_TAIL]

RECURSIVE SeatNumbersTextTrailingSeparator(_, _)
\* faulty variant of SeatNumbersText: the separator follows the last seat as well
SeatNumbersTextTrailingSeparator(seatNumbers, i) ==
    IF i >= Len(seatNumbers) THEN <<>>
    ELSE to_string(seatNumbers[i + 1])
         \o (IF i < Len(seatNumbers) THEN <<",", " ">> ELSE <<>>)
         \o SeatNumbersTextTrailingSeparator(seatNumbers, i + 1)

RECURSIVE SeatNumbersText(_, _)
\* for (i = 0; i < seatNumbers.size(); ++i) response += to_string(seatNumbers[i]) [+ ", "]
SeatNumbersText(seatNumbers, i) ==
    IF i >= Len(seatNumbers) THEN <<>>
    ELSE to_string(seatNumbers[i + 1])
         \o (IF i < Len(seatNumbers) - 1 THEN <<",", " ">> ELSE <<>>)
         \o SeatNumbersText(seatNumbers, i + 1)

RECURSIVE BookFirstMatchNoBroadcast(_, _, _, _, _)
\* faulty variant of BookFirstMatch: a successful booking does not ask for a broadcast
BookFirstMatchNoBroadcast(catalog, theaterName, movieName, seatNumbers, i) ==
    IF i > Len(catalog)
    THEN [success |-> FALSE,
          message |-> ERR_NOT_FOUND \o movieName \o AT_ \o theaterName \o BLANK_LINE
                      \o FormatCinemaData(catalog),
          shouldBroadcast |-> FALSE, shows |-> catalog]
    ELSE IF catalog[i].theater = theaterName /\ catalog[i].movie = movieName
         THEN LET booked == BookSeats(catalog[i].seats, seatNumbers)
                  after == [catalog EXCEPT ![i].seats = booked.seats]
              IN IF booked.ret
                 THEN [success |-> TRUE,
                       message |-> SUCCESS_BOOKED \o SeatNumbersText(seatNumbers, 0)
                                   \o FOR_ \o movieName \o AT_ \o theaterName \o BLANK_LINE
                                   \o FormatCinemaData(after),
                       shouldBroadcast |-> FALSE, shows |-> after]
                 ELSE [success |-> FALSE,
                       message |-> ERR_ALREADY_BOOKED \o FormatCinemaData(after),
                       shouldBroadcast |-> FALSE, shows |-> after]
         ELSE BookFirstMatchNoBroadcast(catalog, theaterName, movieName, seatNumbers, i + 1)

RECURSIVE BookFirstMatchTriesNext(_, _, _, _, _)
\* faulty variant of BookFirstMatch: when a matching show refuses the seats the
\* scan goes on to the next matching show
BookFirstMatchTriesNext(catalog, theaterName, movieName, seatNumbers, i) ==
    IF i > Len(catalog)
    THEN [success |-> FALSE,
          message |-> ERR_NOT_FOUND \o movieName \o AT_ \o theaterName \o BLANK_LINE
                      \o FormatCinemaData(catalog),
          shouldBroadcast |-> FALSE, shows |-> catalog]
    ELSE IF /\ catalog[i].theater = theaterName /\ catalog[i].movie = movieName
            /\ BookSeats(catalog[i].seats, seatNumbers).ret
         THEN LET after == [catalog EXCEPT
                              ![i].seats = BookSeats(catalog[i].seats, seatNumbers).seats]
              IN [success |-> TRUE,
                  message |-> SUCCESS_BOOKED \o SeatNumbersText(seatNumbers, 0)
                              \o FOR_ \o movieName \o AT_ \o theaterName \o BLANK_LINE
                              \o FormatCinemaData(after),
                  shouldBroadcast |-> TRUE, shows |-> after]
         ELSE BookFirstMatchTriesNext(catalog, theaterName, movieName, seatNumbers, i + 1)

RECURSIVE BookFirstMatchEveryMatch(_, _, _, _, _)
\* faulty variant of BookFirstMatch: a successful booking marks the seats in
\* every show with this theater and movie
BookFirstMatchEveryMatch(catalog, theaterName, movieName, seatNumbers, i) ==
    IF i > Len(catalog)
    THEN [success |-> FALSE,
          message |-> ERR_NOT_FOUND \o movieName \o AT_ \o theaterName \o BLANK_LINE
                      \o FormatCinemaData(catalog),
          shouldBroadcast |-> FALSE, shows |-> catalog]
    ELSE IF catalog[i].theater = theaterName /\ catalog[i].movie = movieName
         THEN LET booked == BookSeats(catalog[i].seats, seatNumbers)
                  after == [j \in 1..Len(catalog) |->
                               IF /\ booked.ret
                                  /\ catalog[j].theater = theaterName
                                  /\ catalog[j].movie = movieName
                               THEN [catalog[j] EXCEPT
                                        !.seats = BookSeatsMark(@, seatNumbers, 1)]
                               ELSE catalog[j]]
              IN IF booked.ret
                 THEN [success |-> TRUE,
                       message |-> SUCCESS_BOOKED \o SeatNumbersText(seatNumbers, 0)
                                   \o FOR_ \o movieName \o AT_ \o theaterName \o BLANK_LINE
                                   \o FormatCinemaData(after),
                       shouldBroadcast |-> TRUE, shows |-> after]
                 ELSE [success |-> FALSE,
                       message |-> ERR_ALREADY_BOOKED \o FormatCinemaData(after),
                       shouldBroadcast |-> FALSE, shows |-> after]
         ELSE BookFirstMatchEveryMatch(catalog, theaterName, movieName, seatNumbers, i + 1)

RECURSIVE BookFirstMatch(_, _, _, _, _)
\* for (auto& show : shows): the first show with this theater and movie is
\* booked and decides the result; no match ends in "Show not found"
BookFirstMatch(catalog, theaterName, movieName, seatNumbers, i) ==
    IF i > Len(catalog)
    THEN [success |-> FALSE,
          message |-> ERR_NOT_FOUND \o movieName \o AT_ \o theaterName \o BLANK_LINE
                      \o FormatCinemaData(catalog),
          shouldBroadcast |-> FALSE, shows |-> catalog]
    ELSE IF catalog[i].theater = theaterName /\ catalog[i].movie = movieName
         THEN LET booked == BookSeats(catalog[i].seats, seatNumbers)
                  after == [catalog EXCEPT ![i].seats = booked.seats]
              IN IF booked.ret
                 THEN [success |-> TRUE,
                       message |-> SUCCESS_BOOKED \o SeatNumbersText(seatNumbers, 0)
                                   \o FOR_ \o movieName \o AT_ \o theaterName \o BLANK_LINE
                                   \o FormatCinemaData(after),
                       shouldBroadcast |-> TRUE, shows |-> after]
                 ELSE [success |-> FALSE,
                       message |-> ERR_ALREADY_BOOKED \o FormatCinemaData(after),
                       shouldBroadcast |-> FALSE, shows |-> after]
         ELSE BookFirstMatch(catalog, theaterName, movieName, seatNumbers, i + 1)

\* faulty variant of ProcessBooking: the show is looked up before the seat
\* fields are validated
ProcessBookingLookupFirst(message, catalog) ==
    LET parts == GetlineLoop(message, ",", 1, <<>>) IN
    IF Len(parts) < 3
    THEN [success |-> FALSE, message |-> ERR_FORMAT \o FormatCinemaData(catalog),
          shouldBroadcast |-> FALSE, shows |-> catalog]
    ELSE LET theaterName == parts[1]
             movieName == parts[2]
             seats == ParseSeatsLoop(parts, 2, <<>>)
         IN IF \A i \in 1..Len(catalog) :
                  ~(catalog[i].theater = theaterName /\ catalog[i].movie = movieName)
            THEN BookFirstMatch(catalog, theaterName, movieName, <<>>, 1)
            ELSE IF ~seats.ok
                 THEN [success |-> FALSE,
                       message |-> seats.error \o FormatCinemaData(catalog),
                       shouldBroadcast |-> FALSE, shows |-> catalog]
                 ELSE BookFirstMatch(catalog, theaterName, movieName, seats.seatNumbers, 1)

\* BookingService::processBooking: the BookingResult and the show list afterwards
ProcessBooking(message, catalog) ==
    LET parts == GetlineLoop(message, ",", 1, <<>>) IN
    IF Len(parts) < 3
    THEN [success |-> FALSE, message |-> ERR_FORMAT \o FormatCinemaData(catalog),
          shouldBroadcast |-> FALSE, shows |-> catalog]
    ELSE LET theaterName == parts[1]
             movieName == parts[2]
             seats == ParseSeatsLoop(parts, 2, <<>>)
         IN IF ~seats.ok
            THEN [success |-> FALSE, message |-> seats.error \o FormatCinemaData(catalog),
                  shouldBroadcast |-> FALSE, shows |-> catalog]
            ELSE BookFirstMatch(catalog, theaterName, movieName, seats.seatNumbers, 1)

\* MessageHandler::handleMessage: the response, shouldBroadcast and the show list
\* a router that asks for a broadcast after a data request as well
HandleMessageBroadcastsData(received, catalog) ==
    IF received = GET_DATA \/ received = REFRESH
    THEN [message |-> FormatCinemaData(catalog), shouldBroadcast |-> TRUE,
          shows |-> catalog]
    ELSE IF Find(received, <<",">>) # npos
         THEN LET result == ProcessBooking(received, catalog) IN
              [message |-> result.message, shouldBroadcast |-> result.shouldBroadcast,
               shows |-> result.shows]
         ELSE [message |-> ECHO \o received \o BLANK_LINE \o FormatCinemaData(catalog),
               shouldBroadcast |-> FALSE, shows |-> catalog]

\* faulty variant of HandleMessage: a message that begins with "get_data" or
\* "refresh" is taken for a data request
HandleMessagePrefixMatch(received, catalog) ==
    IF OccursAt(received, GET_DATA, 0) \/ OccursAt(received, REFRESH, 0)
    THEN [message |-> FormatCinemaData(catalog), shouldBroadcast |-> FALSE,
          shows |-> catalog]
    ELSE IF Find(received, <<",">>) # npos
         THEN LET result == ProcessBooking(received, catalog) IN
              [message |-> result.message, shouldBroadcast |-> result.shouldBroadcast,
               shows |-> result.shows]
         ELSE [message |-> ECHO \o received \o BLANK_LINE \o FormatCinemaData(catalog),
               shouldBroadcast |-> FALSE, shows |-> catalog]

\* MessageHandler::handleMessage
HandleMessage(received, catalog) ==
    IF received = GET_DATA \/ received = REFRESH
    THEN [message |-> FormatCinemaData(catalog), shouldBroadcast |-> FALSE,
          shows |-> catalog]
    ELSE IF Find(received, <<",">>) # npos
         THEN LET result == ProcessBooking(received, catalog) IN
              [message |-> result.message, shouldBroadcast |-> result.shouldBroadcast,
               shows |-> result.shows]
         ELSE [message |-> ECHO \o received \o BLANK_LINE \o FormatCinemaData(catalog),
               shouldBroadcast |-> FALSE, shows |-> catalog]

-----------------------------------------------------------------------------
(* Inbound messages and catalogs the specifications draw from *)

\* "get_data"
MsgGetData == <<"g", "e", "t", "_", "d", "a", "t", "a">>
\* "refresh"
MsgRefresh == <<"r", "e", "f", "r", "e", "s", "h">>
\* "hello"
MsgHello == <<"h", "e", "l", "l", "o">>
\* "PVR,Inception,3,4"
MsgBook34 == <<"P", "V", "R", ",", "I", "n", "c", "e", "p", "t", "i", "o", "n", ",", "3", ",", "4">>
\* "PVR,Inception,4,3"
MsgBook43 == <<"P", "V", "R", ",", "I", "n", "c", "e", "p", "t", "i", "o", "n", ",", "4", ",", "3">>
\* "PVR,Inception,6,6"
MsgBook66 == <<"P", "V", "R", ",", "I", "n", "c", "e", "p", "t", "i", "o", "n", ",", "6", ",", "6">>
\* "IMAX,Inception,1,2"
MsgImax12 == <<"I", "M", "A", "X", ",", "I", "n", "c", "e", "p", "t", "i", "o", "n", ",", "1", ",", "2">>
\* "IMAX,Inception,1"
MsgImax1 == <<"I", "M", "A", "X", ",", "I", "n", "c", "e", "p", "t", "i", "o", "n", ",", "1">>
\* "PVR,Inception,21"
MsgSeat21 == <<"P", "V", "R", ",", "I", "n", "c", "e", "p", "t", "i", "o", "n", ",", "2", "1">>
\* "PVR,Inception"
MsgNoSeat == <<"P", "V", "R", ",", "I", "n", "c", "e", "p", "t", "i", "o", "n">>
\* "PVR,Inception,1"
MsgSeat1 == <<"P", "V", "R", ",", "I", "n", "c", "e", "p", "t", "i", "o", "n", ",", "1">>
\* "PVR,Inception,3x"
MsgSeat3x == <<"P", "V", "R", ",", "I", "n", "c", "e", "p", "t", "i", "o", "n", ",", "3", "x">>
\* "get_data " (with a trailing space)
MsgGetDataSpace == <<"g", "e", "t", "_", "d", "a", "t", "a", " ">>
\* "PVR,Inception,abc"
MsgSeatAbc == <<"P", "V", "R", ",", "I", "n", "c", "e", "p", "t", "i", "o", "n", ",", "a", "b", "c">>
\* "PVR,Inception,"
MsgTrailingComma == <<"P", "V", "R", ",", "I", "n", "c", "e", "p", "t", "i", "o", "n", ",">>
\* "PVR,Inception,,3"
MsgEmptyField == <<"P", "V", "R", ",", "I", "n", "c", "e", "p", "t", "i", "o", "n", ",", ",", "3">>
\* "PVR,Tenet,3"
MsgUnknownShow == <<"P", "V", "R", ",", "T", "e", "n", "e", "t", ",", "3">>
\* "Nowhere,Tenet,21"
MsgUnknownShow21 == <<"N", "o", "w", "h", "e", "r", "e", ",", "T", "e", "n", "e", "t", ",", "2", "1">>
\* "PVR,Inception,3,1"
MsgSeat31 == <<"P", "V", "R", ",", "I", "n", "c", "e", "p", "t", "i", "o", "n", ",", "3", ",", "1">>
\* "PVR,Inception,7,25"
MsgSeat7and25 == <<"P", "V", "R", ",", "I", "n", "c", "e", "p", "t", "i", "o", "n", ",", "7", ",", "2", "5">>
\* "PVR,Inception,25,abc"
MsgSeat25Abc == <<"P", "V", "R", ",", "I", "n", "c", "e", "p", "t", "i", "o", "n", ",", "2", "5", ",", "a", "b", "c">>
\* "PVR,Inception,0"
MsgSeat0 == <<"P", "V", "R", ",", "I", "n", "c", "e", "p", "t", "i", "o", "n", ",", "0">>
\* "PVR,Inception,-1"
MsgSeatMinus1 == <<"P", "V", "R", ",", "I", "n", "c", "e", "p", "t", "i", "o", "n", ",", "-", "1">>
\* ","
MsgComma == <<",">>
\* " PVR , Inception , 1 , 2 "
MsgSpaces == <<" ", "P", "V", "R", " ", ",", " ", "I", "n", "c", "e", "p", "t", "i", "o", "n", " ", ",", " ", "1", " ", ",", " ", "2", " ">>
\* "PVR,Inception,99999999999"
MsgSeatHuge == <<"P", "V", "R", ",", "I", "n", "c", "e", "p", "t", "i", "o", "n", ",", "9", "9", "9", "9", "9", "9", "9", "9", "9", "9", "9">>

Messages ==
    {MsgGetData, MsgRefresh, MsgHello, MsgBook34,
     MsgBook43, MsgBook66, MsgImax12, MsgImax1,
     MsgSeat21, MsgNoSeat, MsgSeat1, MsgSeat3x,
     MsgSeatAbc, MsgTrailingComma, MsgEmptyField, MsgUnknownShow,
     MsgUnknownShow21, MsgSeat31, MsgSeat7and25, MsgSeat0,
     MsgSeatMinus1, MsgComma, MsgSpaces,
     MsgSeatHuge, MsgGetDataSpace, MsgSeat25Abc}

\* the seat pattern of test_booking_service_valid_booking
validBookingPattern == <<TRUE, TRUE, FALSE, FALSE, TRUE,
                         FALSE, TRUE, FALSE, TRUE, FALSE,
                         TRUE, FALSE, TRUE, FALSE, TRUE,
                         FALSE, TRUE, FALSE, TRUE, TRUE>>

\* a show with the given seat vector assigned (show.seats = pattern)
SeededShow(m, t, pattern) == [ShowsCtor(m, ShowTime, t) EXCEPT !.seats = pattern]

\* main.cpp: for each theater, for each movie, a show with
\* patterns[patternIndex % patterns.size()], patternIndex counting the shows
MainShows ==
    [n \in 1..(NumTheaters * NumMovies) |->
        SeededShow(movieNames[((n - 1) % NumMovies) + 1],
                   theaterNames[((n - 1) \div NumMovies) + 1],
                   patterns[((n - 1) % Len(patterns)) + 1])]

\* catalogs processBooking is called with: main.cpp's, those of the tests, and
\* one with a second show for the same theater and movie
Catalogs ==
    {MainShows,
     <<SeededShow(Inception, PVR, validBookingPattern)>>,
     <<SeededShow(Inception, PVR, allOccupied)>>,
     <<SeededShow(Inception, PVR, pattern1), SeededShow(Inception, IMAX, pattern3),
       ShowsCtor(Inception, ShowTime, PVR), SeededShow(Tenet, IMAX, allOccupied)>>}

-----------------------------------------------------------------------------
(* SpecBooking: processBooking and handleMessage called on a catalog *)

BookingInit ==
    /\ shows \in Catalogs
    /\ cshows = <<>>
    /\ ClientOff
    /\ last = NoCall
    /\ HubOff
    /\ ThreadsOff

\* auto result = BookingService::processBooking(message, shows)
CallProcessBooking(message) ==
    \E result \in {ProcessBooking(message, shows)} :
    /\ shows' = result.shows
    /\ last' = [op |-> "processBooking", arg |-> message, before |-> shows,
                ret |-> [success |-> result.success, message |-> result.message,
                         shouldBroadcast |-> result.shouldBroadcast]]
    /\ UNCHANGED <<clientVars, hubVars, threadVars>>

\* response = MessageHandler::handleMessage(received, shows, shouldBroadcast)
CallHandleMessage(received) ==
    \E result \in {HandleMessage(received, shows)} :
    /\ shows' = result.shows
    /\ last' = [op |-> "handleMessage", arg |-> received, before |-> shows,
                ret |-> [message |-> result.message,
                         shouldBroadcast |-> result.shouldBroadcast]]
    /\ UNCHANGED <<clientVars, hubVars, threadVars>>

BookingNext ==
    \/ \E message \in Messages : CallProcessBooking(message)
    \/ \E received \in Messages : CallHandleMessage(received)

SpecBooking == BookingInit /\ [][BookingNext]_vars

\* s begins with prefix
StartsWith(s, prefix) == OccursAt(s, prefix, 0)

\* s ends with suffix
EndsWith(s, suffix) == Len(suffix) <= Len(s) /\ OccursAt(s, suffix, Len(s) - Len(suffix))

\* "SUCCESS:"
SUCCESS_TAG == <<"S", "U", "C", "C", "E", "S", "S", ":">>
\* "ERROR:"
ERROR_TAG == <<"E", "R", "R", "O", "R", ":">>

\* C7: processBooking mutates no show on any error path, and every response,
\* success or error, ends with the snapshot of the catalog as it is after the call.
C7_ErrorsMutateNothing ==
    last.op = "processBooking" =>
        /\ ~last.ret.success => shows = last.before
        /\ EndsWith(last.ret.message, FormatCinemaData(shows))

\* a reservation refused for a booked seat although the request named a free
\* seat before it, after an earlier booking had changed the catalog
C7_Witness ==
    /\ last.op = "processBooking"
    /\ last.arg = MsgSeat31
    /\ ~last.ret.success
    /\ StartsWith(last.ret.message, ERR_ALREADY_BOOKED)
    /\ \E i \in 1..Len(shows) :
          /\ shows[i].theater = PVR
          /\ shows[i].seats[1] /\ ~shows[i].seats[3] /\ shows[i].seats[6]

\* the comma-separated fields of a request
Fields(message) == GetlineLoop(message, ",", 1, <<>>)

\* at least three fields, and every seat field is read by std::stoi as a number in 1..20
WellFormed(message) ==
    /\ Len(Fields(message)) >= 3
    /\ \A f \in 3..Len(Fields(message)) :
          Stoi(Fields(message)[f]).ok /\ Stoi(Fields(message)[f]).val \in 1..20

\* the positions in the catalog of the shows with the request's theater and movie
Matching(message, catalog) ==
    {i \in 1..Len(catalog) : /\ catalog[i].theater = Fields(message)[1]
                             /\ catalog[i].movie = Fields(message)[2]}

\* the request is well-formed, its show exists, and every requested seat of the
\* first matching show is available
Accepted(message, catalog) ==
    /\ WellFormed(message)
    /\ Matching(message, catalog) # {}
    /\ \A f \in 3..Len(Fields(message)) :
          ~catalog[Min(Matching(message, catalog))].seats[Stoi(Fields(message)[f]).val]

-----------------------------------------------------------------------------
(* WebSocketSession and WebSocketServer (server/lib/websocket_server.cpp).   *)
(* main.cpp runs the io_context on one thread, so each completion handler    *)
(* is one step.                                                              *)

SessionIds == 1..MaxSessions

\* messages the clients send to the server
InboundMessages == {MsgGetData, MsgBook34, MsgBook43, MsgSeat1}

\* the per-session members and logs, as one value the member functions update
Hub ==
    [message_queue_ |-> message_queue_, writing_ |-> writing_,
     writePending |-> writePending, wire |-> wire, enqueued |-> enqueued]

\* faulty variant of DoWrite: the newest message of the queue is written first
DoWriteLifo(h, s) ==
    IF h.message_queue_[s] = <<>>
    THEN [h EXCEPT !.writing_[s] = FALSE]
    ELSE LET n == Len(h.message_queue_[s]) IN
         [h EXCEPT !.writing_[s] = TRUE,
                   !.message_queue_[s] = SubSeq(@, 1, n - 1),
                   !.writePending[s] = Append(@, h.message_queue_[s][n]),
                   !.wire[s] = Append(@, h.message_queue_[s][n])]

\* WebSocketSession::do_write
\* faulty variant of DoWrite: called while the flag is still set (from on_write)
\* it only clears the flag and leaves the queue as it is
DoWriteOnceOnly(h, s) ==
    IF h.message_queue_[s] = <<>> \/ h.writing_[s]
    THEN [h EXCEPT !.writing_[s] = FALSE]
    ELSE [h EXCEPT !.writing_[s] = TRUE,
                   !.message_queue_[s] = Tail(@),
                   !.writePending[s] = Append(@, Head(h.message_queue_[s])),
                   !.wire[s] = Append(@, Head(h.message_queue_[s]))]

DoWrite(h, s) ==
    IF h.message_queue_[s] = <<>>
    THEN [h EXCEPT !.writing_[s] = FALSE]
    ELSE [h EXCEPT !.writing_[s] = TRUE,
                   !.message_queue_[s] = Tail(@),
                   !.writePending[s] = Append(@, Head(h.message_queue_[s])),
                   !.wire[s] = Append(@, Head(h.message_queue_[s]))]

\* faulty variant of SendMessage: do_write is called whatever writing_ says
SendMessageAlwaysWrites(h, s, message) ==
    DoWrite([h EXCEPT !.message_queue_[s] = Append(@, message),
                      !.enqueued[s] = Append(@, message)], s)

\* WebSocketSession::send_message
\* faulty variant of SendMessage: the message is queued and no write is started
SendMessageNeverWrites(h, s, message) ==
    [h EXCEPT !.message_queue_[s] = Append(@, message),
              !.enqueued[s] = Append(@, message)]

SendMessage(h, s, message) ==
    LET pushed == [h EXCEPT !.message_queue_[s] = Append(@, message),
                            !.enqueued[s] = Append(@, message)]
    IN IF ~pushed.writing_[s] THEN DoWrite(pushed, s) ELSE pushed

RECURSIVE BroadcastLoopStopsAtBusy(_, _, _)
\* faulty variant of BroadcastLoop: the loop ends at the first session that has
\* a write outstanding
BroadcastLoopStopsAtBusy(h, todo, updateMessage) ==
    IF todo = {} \/ h.writePending[Min(todo \cup {MaxSessions})] # <<>> THEN h
    ELSE BroadcastLoopStopsAtBusy(SendMessage(h, Min(todo), updateMessage),
                                  todo \ {Min(todo)}, updateMessage)

RECURSIVE BroadcastLoop(_, _, _)
\* for (auto session : sessions_) session->sendBroadcastMessage(updateMessage);
\* each call touches its own session only, so the order of the set is immaterial
BroadcastLoop(h, todo, updateMessage) ==
    IF todo = {} THEN h
    ELSE BroadcastLoop(SendMessage(h, Min(todo), updateMessage), todo \ {Min(todo)},
                       updateMessage)

\* WebSocketServer::broadcastUpdate with broadcastDataCallback_ of main.cpp
\* faulty variant of BroadcastUpdate: the first session of the registry is skipped
BroadcastUpdateSkipsFirst(h, registry, catalog) ==
    BroadcastLoop(h, registry \ {Min(registry \cup {MaxSessions})}, FormatUpdateData(catalog))

\* faulty variant of BroadcastUpdate: the callback formats a copy of the catalog
\* taken at startup ([shows] instead of [&shows])
BroadcastUpdateOfStartupCopy(h, registry, catalog) ==
    BroadcastLoop(h, registry, FormatUpdateData(MainShows))

BroadcastUpdate(h, registry, catalog) ==
    BroadcastLoop(h, registry, FormatUpdateData(catalog))

\* WebSocketServer::addSession
AddSession(registry, s) == registry \cup {s}

\* faulty variant of RemoveSession: the session stays in the registry
RemoveSessionKeeps(registry, s) == registry

\* faulty variant of RemoveSession: the registry is emptied
RemoveSessionDropsAll(registry, s) == {}

\* WebSocketServer::removeSession
RemoveSession(registry, s) == registry \ {s}

\* the members and logs take the values of h
HubBecomes(h) ==
    /\ message_queue_' = h.message_queue_
    /\ writing_' = h.writing_
    /\ writePending' = h.writePending
    /\ wire' = h.wire
    /\ enqueued' = h.enqueued

\* what a handler that has just run leaves in last
Handled(op, s, ec, received, before, ret) ==
    [op |-> op, session |-> s, ec |-> ec, arg |-> received, before |-> before,
     ret |-> ret, registry |-> sessions_]

NoResult == [message |-> <<>>, shouldBroadcast |-> FALSE]

Init ==
    /\ shows = MainShows
    /\ cshows = <<>>
    /\ ClientOff
    /\ last = [op |-> "start", session |-> 0, ec |-> "ok", arg |-> <<>>,
               before |-> shows, ret |-> NoResult, registry |-> {}]
    /\ sessions_ = {}
    /\ message_queue_ = [s \in SessionIds |-> <<>>]
    /\ writing_ = [s \in SessionIds |-> FALSE]
    /\ acceptPending = {}
    /\ readPending = {}
    /\ writePending = [s \in SessionIds |-> <<>>]
    /\ wire = [s \in SessionIds |-> <<>>]
    /\ enqueued = [s \in SessionIds |-> <<>>]
    /\ sold = <<>>
    /\ created = 0
    /\ reads = 0
    /\ ThreadsOff

\* WebSocketServer::on_accept: a connection arrives; the new session's run()
\* registers it and starts the handshake; with ec set nothing is created
ServerOnAccept(ec) ==
    /\ created < MaxSessions
    /\ IF ec # "ok"
       THEN UNCHANGED <<sessions_, acceptPending, created>>
       ELSE /\ created' = created + 1
            /\ sessions_' = AddSession(sessions_, created + 1)
            /\ acceptPending' = acceptPending \cup {created + 1}
    /\ last' = Handled("server_on_accept", IF ec = "ok" THEN created + 1 ELSE 0, ec,
                       <<>>, shows, NoResult)
    /\ UNCHANGED <<shows, clientVars, message_queue_, writing_, readPending, writePending,
                   wire, enqueued, sold, reads, threadVars>>

\* WebSocketSession::on_accept: the handshake has completed
SessionOnAccept(s, ec) ==
    /\ s \in acceptPending
    /\ acceptPending' = acceptPending \ {s}
    /\ IF ec # "ok"
       THEN /\ sessions_' = RemoveSession(sessions_, s)
            /\ UNCHANGED <<message_queue_, writing_, writePending, wire, enqueued,
                           readPending>>
       ELSE /\ \E h \in {SendMessage(Hub, s, FormatCinemaData(shows))} : HubBecomes(h)
            /\ readPending' = readPending \cup {s}
            /\ UNCHANGED sessions_
    /\ last' = Handled("on_accept", s, ec, <<>>, shows, NoResult)
    /\ UNCHANGED <<shows, clientVars, sold, created, reads, threadVars>>

\* WebSocketSession::on_read: a read has completed, with a message or an error
SessionOnRead(s, ec, received) ==
    /\ s \in readPending
    /\ IF ec # "ok"
       THEN /\ sessions_' = RemoveSession(sessions_, s)
            /\ readPending' = readPending \ {s}
            /\ last' = Handled("on_read", s, ec, <<>>, shows, NoResult)
            /\ UNCHANGED <<shows, message_queue_, writing_, writePending, wire, enqueued,
                           sold, reads>>
       ELSE /\ reads < MaxReads
            /\ reads' = reads + 1
            /\ \E result \in {HandleMessage(received, shows)} :
                  /\ shows' = result.shows
                  /\ \E h \in {IF result.shouldBroadcast
                               THEN BroadcastUpdate(SendMessage(Hub, s, result.message),
                                                    sessions_, result.shows)
                               ELSE SendMessage(Hub, s, result.message)} : HubBecomes(h)
                  /\ sold' = IF OccursAt(result.message, SUCCESS_TAG, 0)
                             THEN Append(sold, [session |-> s, request |-> received])
                             ELSE sold
                  /\ last' = Handled("on_read", s, ec, received, shows,
                                     [message |-> result.message,
                                      shouldBroadcast |-> result.shouldBroadcast])
            /\ UNCHANGED <<sessions_, readPending>>
    /\ UNCHANGED <<clientVars, acceptPending, created, threadVars>>

\* WebSocketSession::on_write: the oldest outstanding write has completed
SessionOnWrite(s, ec) ==
    /\ writePending[s] # <<>>
    /\ IF ec # "ok"
       THEN /\ sessions_' = RemoveSession(sessions_, s)
            /\ writePending' = [writePending EXCEPT ![s] = Tail(@)]
            /\ UNCHANGED <<message_queue_, writing_, wire, enqueued>>
       ELSE /\ \E h \in {DoWrite([Hub EXCEPT !.writePending[s] = Tail(@)], s)} :
                  HubBecomes(h)
            /\ UNCHANGED sessions_
    /\ last' = Handled("on_write", s, ec, <<>>, shows, NoResult)
    /\ UNCHANGED <<shows, clientVars, acceptPending, readPending, sold, created, reads,
                   threadVars>>

Next ==
    \/ \E ec \in {"ok", "error"} : ServerOnAccept(ec)
    \/ \E s \in SessionIds, ec \in {"ok", "error"} : SessionOnAccept(s, ec)
    \/ \E s \in SessionIds, received \in InboundMessages : SessionOnRead(s, "ok", received)
    \/ \E s \in SessionIds, ec \in {"closed", "error"} : SessionOnRead(s, ec, <<>>)
    \/ \E s \in SessionIds, ec \in {"ok", "error"} : SessionOnWrite(s, ec)

Spec == Init /\ [][Next]_vars

-----------------------------------------------------------------------------
(* Properties of the server *)

\* the position in the catalog of the show the k-th SUCCESS answer sold seats of
SoldShow(k) == Min(Matching(sold[k].request, MainShows))

\* the seats the k-th SUCCESS answer names
SoldSeats(k) ==
    {Stoi(Fields(sold[k].request)[f]).val : f \in 3..Len(Fields(sold[k].request))}

\* C4: no seat is sold twice: whatever the sequence and interleaving of booking
\* requests from the sessions, each seat of each show is in at most one booking
\* answered with SUCCESS, and a seat already booked at startup is in none.
C4_NoSeatSoldTwice ==
    /\ \A k \in 1..Len(sold) :
          /\ Matching(sold[k].request, MainShows) # {}
          /\ \A seat \in SoldSeats(k) :
                seat \in 1..SeatCount /\ ~MainShows[SoldShow(k)].seats[seat]
    /\ \A j \in 1..Len(sold) : \A k \in 1..Len(sold) :
          (j < k /\ SoldShow(j) = SoldShow(k)) => SoldSeats(j) \cap SoldSeats(k) = {}

\* one session has been sold seats 3 and 4, and another session asking for seats
\* 4 and 3 of the same show has just been refused
C4_Witness ==
    /\ Len(sold) = 1
    /\ sold[1].request = MsgBook34
    /\ last.op = "on_read"
    /\ last.session # sold[1].session
    /\ last.arg = MsgBook43
    /\ StartsWith(last.ret.message, ERR_ALREADY_BOOKED)
    /\ shows[1].seats[3] /\ shows[1].seats[4]

BOOKING_UPDATE_TAG ==
    <<"B", "O", "O", "K", "I", "N", "G", "_", "U", "P", "D", "A", "T", "E", ":">>

\* the messages send_message has been given for session s in the current step
NewlyEnqueued(s) == SubSeq(enqueued'[s], Len(enqueued[s]) + 1, Len(enqueued'[s]))

\* the current step is an on_read that dispatches a message to the router
Dispatches == reads' = reads + 1

\* C9: when a session's inbound message results in a successful booking, exactly one
\* update snapshot is enqueued to every session in the registry at that moment,
\* including the originating session, within the same handling step.
C9_UpdateReachesRegistryAndOriginator ==
    [][(Dispatches /\ StartsWith(last'.ret.message, SUCCESS_TAG)) =>
          \A s \in sessions_ \cup {last'.session} :
             NewlyEnqueued(s) =
                 (IF s = last'.session THEN <<last'.ret.message>> ELSE <<>>)
                     \o <<FormatUpdateData(shows')>>]_vars

C11_FifoDelivery ==
    \A s \in SessionIds : enqueued[s] = wire[s] \o message_queue_[s]

\* two different messages of a session have been handed to the transport in turn
\* while a third, different again, waits in its queue
C11_Witness ==
    \E s \in SessionIds :
       /\ Len(wire[s]) = 2
       /\ Len(message_queue_[s]) = 1
       /\ Cardinality({wire[s][1], wire[s][2], message_queue_[s][1]}) = 3

\* C12: at most one write is outstanding on a session's transport: a write is
\* started only when no earlier write of the session awaits its completion,
\* whatever the interleaving of responses, broadcasts and write completions.
C12_OneOutstandingWrite ==
    \A s \in SessionIds :
       /\ Len(writePending[s]) <= 1
       /\ writePending[s] # <<>> => writing_[s]

\* a broadcast caused by another session has reached a session whose write is
\* still outstanding: the update waits in the queue
C12_Witness ==
    /\ last.op = "on_read"
    /\ last.ret.shouldBroadcast
    /\ \E s \in last.registry \ {last.session} :
          /\ Len(writePending[s]) = 1
          /\ message_queue_[s] # <<>>
          /\ StartsWith(message_queue_[s][Len(message_queue_[s])], BOOKING_UPDATE_TAG)

C14_InitialSnapshotFirst ==
    [][(last'.op = "on_accept" /\ last'.ec = "ok") =>
          /\ last'.session \notin readPending
          /\ enqueued'[last'.session] = <<FormatCinemaData(shows)>>]_vars

\* the sessions the server has created
Created == 1..created

\* the sessions that have left the registry
Removed == Created \ sessions_

\* C15: a handshake failure, read error, write error or orderly close of a session
\* removes it from the registry, and a removed session is never registered again
\* and never again receives a broadcast.
C15_ClosedIsTerminal ==
    [][/\ (last'.ec # "ok" /\ last'.session # 0) => last'.session \notin sessions_'
       /\ \A s \in Removed :
             /\ s \notin sessions_'
             /\ \A k \in 1..Len(NewlyEnqueued(s)) :
                   ~StartsWith(NewlyEnqueued(s)[k], BOOKING_UPDATE_TAG)]_vars

\* a session has been removed by an error, and the other session has booked
\* since: the update went to the booking session and not to the removed one
C15_Witness ==
    /\ last.op = "on_read"
    /\ last.ret.shouldBroadcast
    /\ last.session \in last.registry
    /\ \E s \in Removed \ {last.session} :
          /\ enqueued[s] # <<>>
          /\ \A k \in 1..Len(enqueued[s]) : ~StartsWith(enqueued[s][k], BOOKING_UPDATE_TAG)
    /\ StartsWith(enqueued[last.session][Len(enqueued[last.session])], BOOKING_UPDATE_TAG)

\* the handshake of s has completed with success: on_accept is the only handler
\* that enqueues a snapshot to a session that has read nothing yet
Handshaken(s) ==
    \E k \in 1..Len(enqueued[s]) : StartsWith(enqueued[s][k], CINEMA_DATA_STREAM)

\* C16: once a session has been removed from the registry by a read error, a write
\* error or an orderly close, no further write is started on its transport, be it
\* for messages waiting in its queue or after a write that was in flight.
C16_NoWriteAfterRemoval ==
    [][\A s \in Removed : Handshaken(s) => wire'[s] = wire[s]]_vars

\* C17: a transport error or close on one session affects that session only: every
\* other session stays in the registry, keeps its queue contents and its
\* write-in-flight flag, and no show's seats change.
C17_ErrorTouchesOneSession ==
    [][last'.ec # "ok" =>
          /\ sessions_' = sessions_ \ {last'.session}
          /\ \A o \in SessionIds \ {last'.session} :
                /\ message_queue_'[o] = message_queue_[o]
                /\ writing_'[o] = writing_[o]
          /\ shows' = shows]_vars

\* a session has just been removed by a read error or close while another session,
\* still registered, has a write in flight and a message waiting, seats being sold
C17_Witness ==
    /\ last.op = "on_read"
    /\ last.ec # "ok"
    /\ last.session \in last.registry
    /\ sold # <<>>
    /\ \E o \in sessions_ : writing_[o] /\ message_queue_[o] # <<>>

-----------------------------------------------------------------------------
(* Properties of the message router and of the booking responses *)

IsIntegerText(str) ==
    /\ str # <<>>
    /\ LET body == IF str[1] \in {"-", "+"} THEN Tail(str) ELSE str
       IN body # <<>> /\ \A k \in 1..Len(body) : IsDigit(body[k])

\* C19: booking-request validation is strict: if a seat field is not an integer
\* (trailing characters as in "3x", or an empty field) or is an integer outside
\* [1,20], the request is rejected with an ERROR response and no seat of any show
\* is booked, even when its other seat fields are valid and available.
C19_StrictValidation ==
    (/\ last.op = "processBooking"
     /\ \E f \in 3..Len(Fields(last.arg)) :
           \/ ~IsIntegerText(Fields(last.arg)[f])
           \/ ~Stoi(Fields(last.arg)[f]).ok
           \/ Stoi(Fields(last.arg)[f]).val \notin 1..SeatCount)
    => /\ ~last.ret.success
       /\ StartsWith(last.ret.message, ERROR_TAG)
       /\ shows = last.before

\* the seat numbers of a request, as std::stoi reads its seat fields, in request order
RequestedSeats(message) ==
    [n \in 1..(Len(Fields(message)) - 2) |-> Stoi(Fields(message)[n + 2]).val]

RECURSIVE SeatListText(_)
\* decimal seat numbers separated by ", "
SeatListText(seatNumbers) ==
    IF seatNumbers = <<>> THEN <<>>
    ELSE IF Len(seatNumbers) = 1 THEN to_string(seatNumbers[1])
    ELSE to_string(seatNumbers[1]) \o <<",", " ">> \o SeatListText(Tail(seatNumbers))

RECURSIVE Insert(_, _)
\* x put into the ascending sequence sorted
Insert(sorted, x) ==
    IF sorted = <<>> THEN <<x>>
    ELSE IF x <= sorted[1] THEN <<x>> \o sorted
    ELSE <<sorted[1]>> \o Insert(Tail(sorted), x)

RECURSIVE Ascending(_)
\* the elements of seq in ascending order
Ascending(seq) ==
    IF seq = <<>> THEN <<>> ELSE Insert(Ascending(Tail(seq)), seq[1])

\* the head of a SUCCESS response that lists the given seat numbers
SuccessHead(message, seatNumbers) ==
    <<"S", "U", "C", "C", "E", "S", "S", ":", " ", "B", "o", "o", "k", "e", "d", " ",
      "s", "e", "a", "t", "s", " ">>
        \o SeatListText(seatNumbers) \o <<" ", "f", "o", "r", " ">> \o Fields(message)[2]
        \o <<" ", "a", "t", " ">> \o Fields(message)[1] \o <<"\n", "\n">>

\* C20 as stated: the SUCCESS response of processBooking lists the booked seat
\* numbers in ascending order, for every order in which the request names them.
C20_SeatsListedAscending ==
    (last.op = "processBooking" /\ last.ret.success) =>
        StartsWith(last.ret.message,
                   SuccessHead(last.arg, Ascending(RequestedSeats(last.arg))))

\* C20 as amended: the SUCCESS response of processBooking lists the booked seat
\* numbers in the order in which the request names them.
C20_SeatsListedInRequestOrder ==
    (last.op = "processBooking" /\ last.ret.success) =>
        StartsWith(last.ret.message, SuccessHead(last.arg, RequestedSeats(last.arg)))

\* "PVR,Inception,4,3" has been booked and answered "Booked seats 4, 3"
C20_Witness ==
    /\ last.op = "processBooking"
    /\ last.arg = MsgBook43
    /\ last.ret.success
    /\ StartsWith(last.ret.message, SUCCESS_BOOKED \o <<"4", ",", " ", "3">> \o FOR_)

-----------------------------------------------------------------------------
(* Further properties of the seat ledger and of processBooking *)

\* C21: a reservation whose seat list names the same in-range, available seat more
\* than once succeeds, and leaves the ledger as the reservation of the same seats
\* named once each leaves it: these seats booked, every other seat as before.
C21_DuplicateSeatsBookedOnce ==
    (/\ last.op = "bookSeats"
     /\ Cardinality(Range(last.arg)) < Len(last.arg)
     /\ \A k \in 1..Len(last.arg) :
           last.arg[k] \in 1..SeatCount /\ ~last.before[last.arg[k]])
    => /\ last.ret
       /\ shows[1].seats = [n \in 1..SeatCount |-> last.before[n] \/ n \in Range(last.arg)]

\* seat 20 named twice on a show with seat 20 free and other seats booked
C21_Witness ==
    /\ last.op = "bookSeats"
    /\ last.arg = <<20, 20>>
    /\ last.ret
    /\ ~last.before[20]
    /\ last.before[1]
    /\ shows[1].seats[20]

\* C22: show lookup is first-match on exact equality of theater and movie: when the
\* catalog holds several shows with the same theater and movie, a booking request
\* for that pair is decided against the first of them in catalog order, and the
\* seats of the later ones never change, also when the first refuses.
C22_FirstMatchOnly ==
    last.op = "processBooking" =>
        LET M == Matching(last.arg, last.before) IN
        /\ \A i \in 1..Len(shows) : (M = {} \/ i # Min(M)) => shows[i] = last.before[i]
        /\ (WellFormed(last.arg) /\ M # {}) =>
              (last.ret.success <=>
                  \A n \in 1..Len(RequestedSeats(last.arg)) :
                     ~last.before[Min(M)].seats[RequestedSeats(last.arg)[n]])

\* the catalog holds two PVR/Inception shows; seat 1 is booked in the first and
\* free in the second: the request for seat 1 has been refused, the second untouched
C22_Witness ==
    /\ last.op = "processBooking"
    /\ last.arg = MsgSeat1
    /\ Matching(last.arg, last.before) = {1, 3}
    /\ last.before[1].seats[1]
    /\ ~last.before[3].seats[1]
    /\ ~last.ret.success
    /\ ~shows[3].seats[1]

-----------------------------------------------------------------------------
(* Properties of the formatted snapshot *)

\* the lines of a text
Lines(text) == GetlineLoop(text, "\n", 1, <<>>)

RECURSIVE ListedShows(_, _, _, _)
\* the shows a snapshot lists, in the order of its lines: the theater line a show
\* stands under, its movie line and the seat line that follows it
ListedShows(lines, k, theater, listed) ==
    IF k > Len(lines) THEN listed
    ELSE IF StartsWith(lines[k], THEATER_PREFIX)
         THEN ListedShows(lines, k + 1, lines[k], listed)
    ELSE IF StartsWith(lines[k], MOVIE_PREFIX)
         THEN ListedShows(lines, k + 1, theater,
                 Append(listed, [theater |-> theater, movie |-> lines[k],
                                 seats |-> IF k < Len(lines) THEN lines[k + 1] ELSE <<>>]))
    ELSE ListedShows(lines, k + 1, theater, listed)

RECURSIVE ListedTheaters(_, _)
\* the theater lines of a snapshot, in order
ListedTheaters(lines, k) ==
    IF k > Len(lines) THEN <<>>
    ELSE (IF StartsWith(lines[k], THEATER_PREFIX) THEN <<lines[k]>> ELSE <<>>)
         \o ListedTheaters(lines, k + 1)

\* the numbers of a set in ascending order
SortedSeq(S) ==
    [n \in 1..Cardinality(S) |-> CHOOSE x \in S : Cardinality({y \in S : y < x}) = n - 1]

\* the position of the first show of the catalog that plays in the theater of show i
FirstOfTheater(catalog, i) ==
    Min({j \in 1..Len(catalog) : catalog[j].theater = catalog[i].theater})

\* the positions of the catalog, theaters in the order of their first show and
\* the shows of a theater in catalog order
TheaterOrder(catalog) ==
    LET keys == SortedSeq({FirstOfTheater(catalog, i) * (Len(catalog) + 1) + i :
                              i \in 1..Len(catalog)})
    IN [n \in 1..Len(keys) |-> keys[n] % (Len(catalog) + 1)]

\* C23: in every formatted snapshot the theaters appear in the order of their first
\* occurrence in the show list (not sorted), the shows of a theater appear in
\* catalog order, and every show of the catalog appears exactly once.
C23_SnapshotOrder ==
    last.op \in {"handleMessage", "processBooking"} =>
        LET lines == Lines(last.ret.message)
            listed == ListedShows(lines, 1, <<>>, <<>>)
            order == TheaterOrder(shows)
            firsts == SortedSeq({FirstOfTheater(shows, i) : i \in 1..Len(shows)})
        IN /\ ListedTheaters(lines, 1) =
                 [n \in 1..Len(firsts) |->
                     <<"T", "h", "e", "a", "t", "e", "r", ":", " ">> \o shows[firsts[n]].theater]
           /\ Len(listed) = Len(shows)
           /\ \A n \in 1..Len(listed) :
                 /\ listed[n].theater =
                       <<"T", "h", "e", "a", "t", "e", "r", ":", " ">> \o shows[order[n]].theater
                 /\ listed[n].movie =
                       <<" ", " ", "M", "o", "v", "i", "e", ":", " ">> \o shows[order[n]].movie
                          \o <<" ", "(">> \o shows[order[n]].dateTime \o <<")">>

\* the snapshot of a catalog whose theaters alternate (PVR, IMAX, PVR, IMAX): PVR
\* is listed before IMAX, with the first and third show under it
C23_Witness ==
    /\ last.op = "handleMessage"
    /\ last.arg = MsgGetData
    /\ Len(shows) = 4
    /\ TheaterOrder(shows) = <<1, 3, 2, 4>>
    /\ shows[1].theater = PVR /\ shows[2].theater = IMAX
    /\ Len(ListedTheaters(Lines(last.ret.message), 1)) = 2

\* the seat line a snapshot shows for a seat vector
SeatLine(seats) ==
    LET free == {n \in 1..Len(seats) : ~seats[n]} IN
    <<" ", " ", " ", " ", "A", "v", "a", "i", "l", "a", "b", "l", "e", " ",
      "s", "e", "a", "t", "s", ":", " ">>
    \o (IF free = {} THEN <<"S", "O", "L", "D", " ", "O", "U", "T">>
        ELSE SeatListText(SortedSeq(free)))
    \o <<" ", "(", "T", "o", "t", "a", "l", ":", " ">> \o to_string(Cardinality(free))
    \o <<"/", "2", "0", ")">>

\* C24: in every formatted snapshot each show's seat line lists exactly the show's
\* available seat numbers in ascending order, shows the literal SOLD OUT exactly
\* when the show has no available seat, and its "Total: k/20" count is the number
\* of available seats.
C24_SeatLines ==
    last.op \in {"handleMessage", "processBooking"} =>
        LET listed == ListedShows(Lines(last.ret.message), 1, <<>>, <<>>)
            order == TheaterOrder(shows)
        IN /\ Len(listed) = Len(shows)
           /\ \A n \in 1..Len(listed) : listed[n].seats = SeatLine(shows[order[n]].seats)

\* a snapshot with a sold-out show and, after a booking, a show with seats left
C24_Witness ==
    /\ last.op = "processBooking"
    /\ last.ret.success
    /\ \E i \in 1..Len(shows) : \A n \in 1..SeatCount : shows[i].seats[n]
    /\ \E i \in 1..Len(shows) : shows[i] # last.before[i]
    /\ \E n \in 1..Len(Lines(last.ret.message)) :
          EndsWith(Lines(last.ret.message)[n], SOLD_OUT \o TOTAL_PREFIX \o <<"0", "/", "2", "0", ")">>)

-----------------------------------------------------------------------------
(* CinemaClient::parseAndUpdateShows (client/lib/websocket_client.cpp) *)

\* "    Available seats:"
AVAILABLE_SEATS_COLON ==
    <<" ", " ", " ", " ", "A", "v", "a", "i", "l", "a", "b", "l", "e", " ",
      "s", "e", "a", "t", "s", ":">>

THEATER_PREFIX_LEN == 9
MOVIE_PREFIX_LEN == 9

\* s.substr(pos): the characters from the C++ position pos on
Substr(s, pos) == SubSeq(s, pos + 1, Len(s))

\* s.substr(pos, count)
SubstrCount(s, pos, count) == SubSeq(s, pos + 1, Min({Len(s), pos + count}))

RECURSIVE SkipSpaces(_, _)
\* the first position from p on that holds no whitespace, Len(str) + 1 if none
SkipSpaces(str, p) ==
    IF p <= Len(str) /\ IsSpace(str[p]) THEN SkipSpaces(str, p + 1) ELSE p

RECURSIVE SkipToken(_, _)
\* the first position from p on that holds whitespace, Len(str) + 1 if none
SkipToken(str, p) ==
    IF p <= Len(str) /\ ~IsSpace(str[p]) THEN SkipToken(str, p + 1) ELSE p

RECURSIVE ExtractTokens(_, _, _)
\* while (seatStream >> token): the maximal runs of characters that are no
\* whitespace, from the 1-based position p on
ExtractTokens(str, p, tokens) ==
    LET first == SkipSpaces(str, p)
        stop == SkipToken(str, first)
    IN IF first > Len(str) THEN tokens
       ELSE ExtractTokens(str, stop, Append(tokens, SubSeq(str, first, stop - 1)))

RECURSIVE ParseSeatTokensOffByOne(_, _, _)
\* faulty variant of ParseSeatTokens: seatStatus[seatNum] instead of seatStatus[seatNum - 1]
ParseSeatTokensOffByOne(tokens, k, seatStatus) ==
    IF k > Len(tokens) THEN seatStatus
    ELSE LET token == IF tokens[k][Len(tokens[k])] = ","
                      THEN SubSeq(tokens[k], 1, Len(tokens[k]) - 1) ELSE tokens[k]
             seatNum == Stoi(token)
         IN ParseSeatTokensOffByOne(tokens, k + 1,
               IF seatNum.ok /\ seatNum.val >= 1 /\ seatNum.val < SeatCount
               THEN [seatStatus EXCEPT ![seatNum.val + 1] = FALSE]
               ELSE seatStatus)

RECURSIVE ParseSeatTokens(_, _, _)
\* the body of the token loop: a trailing comma is dropped, std::stoi reads the
\* token, a number in 1..20 marks its seat available, anything else is skipped
ParseSeatTokens(tokens, k, seatStatus) ==
    IF k > Len(tokens) THEN seatStatus
    ELSE LET token == IF tokens[k][Len(tokens[k])] = ","
                      THEN SubSeq(tokens[k], 1, Len(tokens[k]) - 1) ELSE tokens[k]
             seatNum == Stoi(token)
         IN ParseSeatTokens(tokens, k + 1,
               IF seatNum.ok /\ seatNum.val >= 1 /\ seatNum.val <= SeatCount
               THEN [seatStatus EXCEPT ![seatNum.val] = FALSE]
               ELSE seatStatus)

\* the seatStatus vector read from an "Available seats" line
ParseSeatsLine(line) ==
    LET afterColon == Substr(line, Find(line, <<":">>) + 1)
        totalPos == Find(afterColon, <<"(", "T", "o", "t", "a", "l", ":">>)
        seatsLine == IF totalPos # npos THEN SubstrCount(afterColon, 0, totalPos)
                     ELSE afterColon
    IN ParseSeatTokens(ExtractTokens(seatsLine, 1, <<>>), 1, [n \in 1..SeatCount |-> TRUE])

\* the show a movie line adds to shows_, or none
ParseMovieLine(line, currentTheater) ==
    LET movieLine == Substr(line, MOVIE_PREFIX_LEN)
        datePos == Find(movieLine, <<" ", "(">>)
        startDate == Find(movieLine, <<"(">>) + 1
        endDate == Find(movieLine, <<")">>)
    IN IF datePos # npos /\ (endDate = npos \/ startDate < endDate)
       THEN <<ShowsCtor(SubstrCount(movieLine, 0, datePos),
                        IF endDate = npos THEN Substr(movieLine, startDate)
                        ELSE SubstrCount(movieLine, startDate, endDate - startDate),
                        currentTheater)>>
       ELSE <<>>

RECURSIVE ParseLoop(_, _, _, _, _)
\* while (std::getline(ss, line)): currentShow is the position in shows_ of the
\* show the pointer refers to, 0 for nullptr
ParseLoop(lines, k, currentTheater, currentShow, shows_) ==
    IF k > Len(lines) THEN shows_
    ELSE IF Find(lines[k], THEATER_PREFIX) = 0
         THEN ParseLoop(lines, k + 1, Substr(lines[k], THEATER_PREFIX_LEN), 0, shows_)
    ELSE IF Find(lines[k], MOVIE_PREFIX) = 0 /\ currentTheater # <<>>
         THEN LET added == ParseMovieLine(lines[k], currentTheater) IN
              ParseLoop(lines, k + 1, currentTheater,
                        IF added = <<>> THEN currentShow ELSE Len(shows_) + 1,
                        shows_ \o added)
    ELSE IF Find(lines[k], AVAILABLE_SEATS_COLON) # npos /\ currentShow # 0
         THEN ParseLoop(lines, k + 1, currentTheater, currentShow,
                 [shows_ EXCEPT ![currentShow].seats =
                     UpdateSeatAvailability(@, ParseSeatsLine(lines[k]))])
    ELSE ParseLoop(lines, k + 1, currentTheater, currentShow, shows_)

\* CinemaClient::parseAndUpdateShows: shows_ after the call
ParseAndUpdateShows(response) ==
    ParseLoop(GetlineLoop(response, "\n", 1, <<>>), 1, <<>>, 0, <<>>)

-----------------------------------------------------------------------------
(* A client reading the snapshots of a server that takes bookings *)

\* CinemaProtocol::CINEMA_DATA_STREAM of the client, "=== CINEMA DATA STREAM ==="
CINEMA_DATA_STREAM_TAG ==
    <<"=", "=", "=", " ", "C", "I", "N", "E", "M", "A", " ", "D", "A", "T", "A", " ", "S", "T", "R", "E", "A", "M", " ", "=", "=", "=">>
\* CinemaProtocol::UPDATED_CINEMA_DATA of the client, "=== UPDATED CINEMA DATA ==="
UPDATED_CINEMA_DATA_TAG ==
    <<"=", "=", "=", " ", "U", "P", "D", "A", "T", "E", "D", " ", "C", "I", "N", "E", "M", "A", " ", "D", "A", "T", "A", " ", "=", "=", "=">>

ClientCatalogs == Catalogs \cup {<<ShowsCtor(Inception, ShowTime, PVR)>>}

ClientBookings == {MsgBook34, MsgBook66, MsgSeat1, MsgSeat31, MsgImax12, MsgImax1}

ClientInit ==
    /\ shows \in ClientCatalogs
    /\ cshows = <<>>
    /\ ClientOff
    /\ last = NoCall
    /\ HubOff
    /\ ThreadsOff

\* CinemaClient::processMessage on a message isCinemaDataStream accepts:
\* parseAndUpdateShows(response) replaces shows_
ProcessMessage(response) ==
    /\ \/ Find(response, CINEMA_DATA_STREAM_TAG) # npos
       \/ Find(response, UPDATED_CINEMA_DATA_TAG) # npos
    /\ cshows' = ParseAndUpdateShows(response)
    /\ last' = [op |-> "parseAndUpdateShows", arg |-> response, before |-> shows,
                ret |-> TRUE]
    /\ UNCHANGED <<shows, lastBookingResponse_, ws_, hubVars, threadVars>>

ClientNext ==
    \/ \E message \in ClientBookings : CallProcessBooking(message)
    \/ ProcessMessage(FormatCinemaData(shows))
    \/ ProcessMessage(FormatUpdateData(shows))

SpecClient == ClientInit /\ [][ClientNext]_vars

\* the seats a client show offers: Shows::getAvailableSeats of the client
ClientAvailable(show) == {n \in 1..Len(show.seats) : ~show.seats[n]}

\* the client's show is the catalog's show: names, date and available seats
SameShow(clientShow, show) ==
    /\ clientShow.theater = show.theater
    /\ clientShow.movie = show.movie
    /\ clientShow.dateTime = show.dateTime
    /\ ClientAvailable(clientShow) = {n \in 1..SeatCount : ~show.seats[n]}

ParsedInitialSnapshot ==
    /\ last.op = "parseAndUpdateShows"
    /\ last.arg = FormatCinemaData(last.before)

-----------------------------------------------------------------------------
(* The live view of the registered sessions, under Spec *)

\* message m carries the snapshot text text.data or is the update text.update
Carries(m, text) == m = text.update \/ EndsWith(m, text.data)

Drained(s) == message_queue_[s] = <<>> /\ writePending[s] = <<>>

\* C26: between handlers, for every registered session that was enqueued a
\* message, the most recently enqueued message carries the snapshot of the
\* current seat state; and when the session's queue has drained, so does the
\* last message written to it.
C26_ConsistentLiveView ==
    \E text \in {[data |-> FormatCinemaData(shows), update |-> FormatUpdateData(shows)]} :
        \A s \in sessions_ :
            enqueued[s] # <<>> =>
                /\ Carries(enqueued[s][Len(enqueued[s])], text)
                /\ Drained(s) =>
                      /\ wire[s] # <<>>
                      /\ Carries(wire[s][Len(wire[s])], text)

\* reached: after a booking, two registered sessions hold the update as their
\* latest message, one of them with its queue drained, the other still waiting
C26_Witness ==
    /\ sold # <<>>
    /\ Cardinality(sessions_) = 2
    /\ \A s \in sessions_ : /\ enqueued[s] # <<>>
                            /\ enqueued[s][Len(enqueued[s])] = FormatUpdateData(shows)
    /\ \E s \in sessions_ : Drained(s) /\ wire[s] # <<>>
    /\ \E s \in sessions_ : ~Drained(s)

-----------------------------------------------------------------------------
(* SpecLocks: the seat locks of the shows, taken by the reactor thread that  *)
(* runs the handlers and by the main thread that prints the catalog          *)

\* std::thread websocket_thread: the thread inside ioc.run()
ReactorThread == 1
\* the thread of main(), printing the free seats after the server has started
MainThread == 2
LockThreads == {ReactorThread, MainThread}

LockInbound == {MsgGetData, MsgBook34, MsgImax1, MsgSeat21, MsgUnknownShow}

\* the show processBooking calls bookSeats on (0: the request never gets to
\* bookSeats) and the seat numbers it passes
BookingTarget(received, catalog) ==
    LET parts == GetlineLoop(received, ",", 1, <<>>)
        seats == ParseSeatsLoop(parts, 2, <<>>)
        matching == {i \in 1..Len(catalog) :
                        catalog[i].theater = parts[1] /\ catalog[i].movie = parts[2]}
    IN IF \/ received = MsgGetData \/ received = MsgRefresh
          \/ Find(received, <<",">>) = npos
          \/ Len(parts) < 3
       THEN [show |-> 0, seatNumbers |-> <<>>]
       ELSE IF ~seats.ok \/ matching = {}
            THEN [show |-> 0, seatNumbers |-> <<>>]
            ELSE [show |-> Min(matching), seatNumbers |-> seats.seatNumbers]

\* faulty variant of MutexOf: one mutex serves every show
MutexOfOneForAll(i) == 1

\* the mutex of show i of the catalog: Shows::Shows makes one for each show it
\* constructs, and main constructs every show of the catalog
MutexOf(i) == i

\* thread t owns the lock of show i, exclusive or shared
Holds(t, i) ==
    seatsMutex[MutexOf(i)].exclusive = t \/ t \in seatsMutex[MutexOf(i)].shared

\* thread t is blocked in the constructor of a lock on show i
WaitsFor(t, i) == pc[t] \in {"book_lock", "get_lock"} /\ local[t].show = i

\* faulty variant of UniqueLockReleased: bookSeats returns with the lock still owned
UniqueLockKept(mutexes, i, t) == mutexes

\* the destructor of std::unique_lock at the return of bookSeats
UniqueLockReleased(mutexes, i, t) ==
    [mutexes EXCEPT ![i].exclusive = IF @ = t THEN 0 ELSE @]

\* the destructor of std::shared_lock at the return of getAvailableSeats
SharedLockReleased(mutexes, i, t) == [mutexes EXCEPT ![i].shared = @ \ {t}]

NoWork == [show |-> 0, seatNumbers |-> <<>>, n |-> 0, passes |-> 0]

\* the first getAvailableSeats of a pass over the catalog in snapshot order
FirstOfPass(catalog, passes) ==
    [show |-> TheaterOrder(catalog)[1], seatNumbers |-> <<>>, n |-> 1, passes |-> passes]

LocksInit ==
    /\ shows = MainShows
    /\ cshows = <<>>
    /\ ClientOff
    /\ last = NoCall
    /\ HubOff
    /\ pc = [t \in LockThreads |-> IF t = MainThread THEN "start" ELSE "idle"]
    /\ local = [t \in LockThreads |-> NoWork]
    /\ seatsMutex = [i \in 1..Len(MainShows) |-> Unlocked]

\* the reactor runs WebSocketSession::on_accept: send_message(getInitialData())
\* formats one snapshot
OnAcceptStarts ==
    /\ pc[ReactorThread] = "idle"
    /\ pc' = [pc EXCEPT ![ReactorThread] = "get_lock"]
    /\ local' = [local EXCEPT ![ReactorThread] = FirstOfPass(shows, 1)]
    /\ UNCHANGED <<ledgerVars, hubVars, seatsMutex>>

\* the reactor runs WebSocketSession::on_read: handleMessage either goes
\* straight to formatCinemaData or, in processBooking, to bookSeats first
OnReadStarts(received) ==
    /\ pc[ReactorThread] = "idle"
    /\ \E target \in {BookingTarget(received, shows)} :
          IF target.show = 0
          THEN /\ pc' = [pc EXCEPT ![ReactorThread] = "get_lock"]
               /\ local' = [local EXCEPT ![ReactorThread] = FirstOfPass(shows, 1)]
          ELSE /\ pc' = [pc EXCEPT ![ReactorThread] = "book_lock"]
               /\ local' = [local EXCEPT ![ReactorThread] =
                               [show |-> target.show, seatNumbers |-> target.seatNumbers,
                                n |-> 0, passes |-> 0]]
    /\ UNCHANGED <<ledgerVars, hubVars, seatsMutex>>

\* main() begins to print the catalog
MainDisplayStarts ==
    /\ pc[MainThread] = "start"
    /\ pc' = [pc EXCEPT ![MainThread] = "get_lock"]
    /\ local' = [local EXCEPT ![MainThread] = FirstOfPass(shows, 1)]
    /\ UNCHANGED <<ledgerVars, hubVars, seatsMutex>>

\* bookSeats: std::unique_lock<std::shared_mutex> lock(*seatsMutex)
BookSeatsAcquire(t) ==
    /\ pc[t] = "book_lock"
    /\ CanLockExclusive(seatsMutex[MutexOf(local[t].show)])
    /\ seatsMutex' = [seatsMutex EXCEPT ![MutexOf(local[t].show)].exclusive = t]
    /\ pc' = [pc EXCEPT ![t] = "book_body"]
    /\ UNCHANGED <<ledgerVars, hubVars, local>>

\* bookSeats: both loops and the return; then processBooking formats the
\* response, and after a success on_read formats the update as well
BookSeatsBody(t) ==
    /\ pc[t] = "book_body"
    /\ \E booked \in {BookSeats(shows[local[t].show].seats, local[t].seatNumbers)} :
          /\ shows' = [shows EXCEPT ![local[t].show].seats = booked.seats]
          /\ local' = [local EXCEPT ![t] =
                          FirstOfPass(shows, IF booked.ret THEN 2 ELSE 1)]
    /\ seatsMutex' = UniqueLockReleased(seatsMutex, MutexOf(local[t].show), t)
    /\ pc' = [pc EXCEPT ![t] = "get_lock"]
    /\ UNCHANGED <<clientVars, last, hubVars>>

\* getAvailableSeats: std::shared_lock<std::shared_mutex> lock(*seatsMutex)
GetAvailableSeatsAcquire(t) ==
    /\ pc[t] = "get_lock"
    /\ CanLockShared(seatsMutex[MutexOf(local[t].show)])
    /\ seatsMutex' = [seatsMutex EXCEPT ![MutexOf(local[t].show)].shared = @ \cup {t}]
    /\ pc' = [pc EXCEPT ![t] = "get_body"]
    /\ UNCHANGED <<ledgerVars, hubVars, local>>

\* getAvailableSeats: the loop and the return; the caller goes on to the next
\* show of the pass, to the next pass, or is finished
GetAvailableSeatsBody(t) ==
    /\ pc[t] = "get_body"
    /\ seatsMutex' = SharedLockReleased(seatsMutex, MutexOf(local[t].show), t)
    /\ IF local[t].n < Len(shows)
       THEN /\ local' = [local EXCEPT ![t].n = @ + 1,
                                      ![t].show = TheaterOrder(shows)[local[t].n + 1]]
            /\ pc' = [pc EXCEPT ![t] = "get_lock"]
       ELSE IF local[t].passes > 1
            THEN /\ local' = [local EXCEPT ![t] = FirstOfPass(shows, local[t].passes - 1)]
                 /\ pc' = [pc EXCEPT ![t] = "get_lock"]
            ELSE /\ local' = [local EXCEPT ![t] = NoWork]
                 /\ pc' = [pc EXCEPT ![t] = IF t = MainThread THEN "done" ELSE "idle"]
    /\ UNCHANGED <<ledgerVars, hubVars>>

LocksNext ==
    \/ OnAcceptStarts
    \/ \E received \in LockInbound : OnReadStarts(received)
    \/ MainDisplayStarts
    \/ \E t \in LockThreads : BookSeatsAcquire(t)
    \/ \E t \in LockThreads : BookSeatsBody(t)
    \/ \E t \in LockThreads : GetAvailableSeatsAcquire(t)
    \/ \E t \in LockThreads : GetAvailableSeatsBody(t)

\* a thread inside a call keeps running, and a lock that is free again and
\* again is eventually given to the thread that waits for it
SpecLocks ==
    /\ LocksInit
    /\ [][LocksNext]_vars
    /\ WF_vars(MainDisplayStarts)
    /\ \A t \in LockThreads :
          /\ WF_vars(BookSeatsBody(t))
          /\ WF_vars(GetAvailableSeatsBody(t))
          /\ SF_vars(BookSeatsAcquire(t))
          /\ SF_vars(GetAvailableSeatsAcquire(t))

NoTwoLocks ==
    \A t \in LockThreads : \A i, j \in 1..Len(shows) : Holds(t, i) /\ Holds(t, j) => i = j

-----------------------------------------------------------------------------
(* SpecReactor: the session registry under the threads that run the          *)
(* completion handlers, with the loop of broadcastUpdate taken one session   *)
(* at a time                                                                 *)

\* faulty variant of ReactorThreads: main() calls ioc.run() as well
ReactorThreadPool == {ReactorThread, MainThread}

\* the threads inside ioc.run(): websocket_thread alone
ReactorThreads == {ReactorThread}

ReactorInbound == {MsgGetData, MsgBook34, MsgSeat1}

NotIterating == [registry |-> {}, todo |-> {}, updateMessage |-> <<>>]

ReactorInit ==
    /\ shows = MainShows
    /\ cshows = <<>>
    /\ ClientOff
    /\ last = NoCall
    /\ sessions_ = {}
    /\ message_queue_ = [s \in SessionIds |-> <<>>]
    /\ writing_ = [s \in SessionIds |-> FALSE]
    /\ acceptPending = {}
    /\ readPending = {}
    /\ writePending = [s \in SessionIds |-> <<>>]
    /\ wire = <<>>
    /\ enqueued = <<>>
    /\ sold = <<>>
    /\ created = 0
    /\ reads = 0
    /\ pc = [t \in ReactorThreads |-> "idle"]
    /\ local = [t \in ReactorThreads |-> NotIterating]
    /\ seatsMutex = <<>>

\* the queue, the flag and the write in flight of the sessions after a handler
QueuesBecome(h) ==
    /\ message_queue_' = h.message_queue_
    /\ writing_' = h.writing_
    /\ writePending' = h.writePending

\* the hub as SendMessage and DoWrite take it
ReactorHub ==
    [message_queue_ |-> message_queue_, writing_ |-> writing_,
     writePending |-> writePending,
     wire |-> [s \in SessionIds |-> <<>>], enqueued |-> [s \in SessionIds |-> <<>>]]

\* thread t runs WebSocketServer::on_accept: run() registers the new session
ReactorServerOnAccept(t) ==
    /\ pc[t] = "idle"
    /\ created < MaxSessions
    /\ created' = created + 1
    /\ sessions_' = AddSession(sessions_, created + 1)
    /\ acceptPending' = acceptPending \cup {created + 1}
    /\ UNCHANGED <<ledgerVars, message_queue_, writing_, readPending, writePending, wire,
                   enqueued, sold, reads, threadVars>>

\* thread t runs WebSocketSession::on_accept of session s
ReactorSessionOnAccept(t, s, ec) ==
    /\ pc[t] = "idle"
    /\ s \in acceptPending
    /\ acceptPending' = acceptPending \ {s}
    /\ IF ec # "ok"
       THEN /\ sessions_' = RemoveSession(sessions_, s)
            /\ UNCHANGED <<message_queue_, writing_, writePending, readPending>>
       ELSE /\ \E h \in {SendMessage(ReactorHub, s, FormatCinemaData(shows))} :
                  QueuesBecome(h)
            /\ readPending' = readPending \cup {s}
            /\ UNCHANGED sessions_
    /\ UNCHANGED <<ledgerVars, wire, enqueued, sold, created, reads, threadVars>>

\* thread t runs WebSocketSession::on_read of session s with a close or an error
ReactorOnReadFails(t, s) ==
    /\ pc[t] = "idle"
    /\ s \in readPending
    /\ sessions_' = RemoveSession(sessions_, s)
    /\ readPending' = readPending \ {s}
    /\ UNCHANGED <<ledgerVars, message_queue_, writing_, acceptPending, writePending,
                   wire, enqueued, sold, created, reads, threadVars>>

\* thread t runs WebSocketSession::on_read of session s with a message: the
\* response is enqueued, and with shouldBroadcast the thread enters the loop
\* of broadcastUpdate
ReactorOnRead(t, s, received) ==
    /\ pc[t] = "idle"
    /\ s \in readPending
    /\ reads < MaxReads
    /\ reads' = reads + 1
    /\ \E result \in {HandleMessage(received, shows)} :
          /\ shows' = result.shows
          /\ \E h \in {SendMessage(ReactorHub, s, result.message)} : QueuesBecome(h)
          /\ IF result.shouldBroadcast
             THEN /\ pc' = [pc EXCEPT ![t] = "iterating"]
                  /\ local' = [local EXCEPT ![t] =
                                  [registry |-> sessions_, todo |-> sessions_,
                                   updateMessage |-> FormatUpdateData(result.shows)]]
             ELSE UNCHANGED <<pc, local>>
    /\ UNCHANGED <<clientVars, last, sessions_, acceptPending, readPending, wire, enqueued,
                   sold, created, seatsMutex>>

\* one turn of for (auto session : sessions_) session->sendBroadcastMessage(...)
\* by thread t; after the last session the handler goes on to do_read()
BroadcastStep(t) ==
    /\ pc[t] = "iterating"
    /\ IF local[t].todo = {}
       THEN /\ pc' = [pc EXCEPT ![t] = "idle"]
            /\ local' = [local EXCEPT ![t] = NotIterating]
            /\ UNCHANGED <<message_queue_, writing_, writePending>>
       ELSE /\ \E h \in {SendMessage(ReactorHub, Min(local[t].todo),
                                     local[t].updateMessage)} : QueuesBecome(h)
            /\ local' = [local EXCEPT ![t].todo = @ \ {Min(@)}]
            /\ UNCHANGED pc
    /\ UNCHANGED <<ledgerVars, sessions_, acceptPending, readPending, wire, enqueued,
                   sold, created, reads, seatsMutex>>

\* thread t runs WebSocketSession::on_write of session s
ReactorOnWrite(t, s, ec) ==
    /\ pc[t] = "idle"
    /\ writePending[s] # <<>>
    /\ IF ec # "ok"
       THEN /\ sessions_' = RemoveSession(sessions_, s)
            /\ writePending' = [writePending EXCEPT ![s] = Tail(@)]
            /\ UNCHANGED <<message_queue_, writing_>>
       ELSE /\ \E h \in {DoWrite([ReactorHub EXCEPT !.writePending[s] = Tail(@)], s)} :
                  QueuesBecome(h)
            /\ UNCHANGED sessions_
    /\ UNCHANGED <<ledgerVars, acceptPending, readPending, wire, enqueued, sold, created,
                   reads, threadVars>>

ReactorNext ==
    \/ \E t \in ReactorThreads : ReactorServerOnAccept(t)
    \/ \E t \in ReactorThreads, s \in SessionIds, ec \in {"ok", "error"} :
          ReactorSessionOnAccept(t, s, ec)
    \/ \E t \in ReactorThreads, s \in SessionIds : ReactorOnReadFails(t, s)
    \/ \E t \in ReactorThreads, s \in SessionIds, received \in ReactorInbound :
          ReactorOnRead(t, s, received)
    \/ \E t \in ReactorThreads : BroadcastStep(t)
    \/ \E t \in ReactorThreads, s \in SessionIds, ec \in {"ok", "error"} :
          ReactorOnWrite(t, s, ec)

SpecReactor == ReactorInit /\ [][ReactorNext]_vars

\* C28: while a thread is inside the loop of broadcastUpdate the registry is
\* the one the loop started on, and no step taken meanwhile adds or removes a
\* session.
C28_RegistryStableDuringBroadcast ==
    /\ [](\A t \in DOMAIN pc : pc[t] = "iterating" => sessions_ = local[t].registry)
    /\ [][(\E t \in DOMAIN pc : pc[t] = "iterating") => sessions_' = sessions_]_vars

\* reached: a broadcast is half way through a registry of two sessions while an
\* accept, a read and a write completion are waiting to be handled
C28_Witness ==
    /\ \E t \in DOMAIN pc :
          /\ pc[t] = "iterating"
          /\ Cardinality(local[t].registry) = 2
          /\ Cardinality(local[t].todo) = 1
    /\ readPending # {}
    /\ \E s \in SessionIds : writePending[s] # <<>>

-----------------------------------------------------------------------------
(* The order of the checks of processBooking, under SpecBooking *)

\* the seat fields std::stoi cannot read or reads as a number outside 1..20
BadSeatFields(message) ==
    {f \in 3..Len(Fields(message)) :
        ~Stoi(Fields(message)[f]).ok \/ Stoi(Fields(message)[f]).val \notin 1..20}

\* C29: processBooking reports the first check that fails, in this order: fewer
\* than 3 fields gives the format error; then the leftmost seat field that is
\* no number in 1..20 gives its seat error; then a request whose show is not in
\* the catalog gives "Show not found"; then seats that cannot be reserved give
\* "already booked or invalid"; a request that passes them all succeeds.
C29_ChecksInFixedOrder ==
    last.op = "processBooking" =>
        IF Len(Fields(last.arg)) < 3
        THEN StartsWith(last.ret.message, ERR_FORMAT)
        ELSE IF BadSeatFields(last.arg) # {}
             THEN LET field == Fields(last.arg)[Min(BadSeatFields(last.arg))] IN
                  IF Stoi(field).ok
                  THEN StartsWith(last.ret.message,
                                  ERR_SEAT_NUMBER \o field \o ERR_SEAT_NUMBER_TAIL)
                  ELSE StartsWith(last.ret.message, ERR_SEAT_FORMAT \o field \o BLANK_LINE)
             ELSE IF Matching(last.arg, last.before) = {}
                  THEN StartsWith(last.ret.message, ERR_NOT_FOUND)
                  ELSE IF ~Accepted(last.arg, last.before)
                       THEN StartsWith(last.ret.message, ERR_ALREADY_BOOKED)
                       ELSE StartsWith(last.ret.message, SUCCESS_TAG)

\* "Nowhere,Tenet,21" names an unknown show and an out-of-range seat and has
\* just been answered with the seat error
C29_Witness ==
    /\ last.op = "processBooking"
    /\ last.arg = MsgUnknownShow21
    /\ Matching(last.arg, last.before) = {}
    /\ StartsWith(last.ret.message, ERR_SEAT_NUMBER \o <<"2", "1">>)

-----------------------------------------------------------------------------
(* The order of response and update after a booking, under Spec *)

\* C30: in the step that handles a successful booking the originating session
\* is enqueued the SUCCESS response first and the BOOKING_UPDATE snapshot
\* second, and every other registered session is enqueued the update only.
C30_ResponseBeforeUpdate ==
    [][(Dispatches /\ last'.ret.shouldBroadcast) =>
          /\ Len(NewlyEnqueued(last'.session)) = 2
          /\ StartsWith(NewlyEnqueued(last'.session)[1], SUCCESS_TAG)
          /\ StartsWith(NewlyEnqueued(last'.session)[2], BOOKING_UPDATE_TAG)
          /\ \A s \in sessions_ \ {last'.session} :
                /\ Len(NewlyEnqueued(s)) = 1
                /\ StartsWith(NewlyEnqueued(s)[1], BOOKING_UPDATE_TAG)]_vars

-----------------------------------------------------------------------------
(* The send queue of a session: draining and the writing flag *)

\* write completions without error keep being delivered: a write that is
\* outstanding does not stay outstanding forever
SpecDrain ==
    /\ Init
    /\ [][Next]_vars
    /\ \A s \in SessionIds : WF_vars(SessionOnWrite(s, "ok"))

\* what on_write leaves behind when it returns on an error: the flag still set
\* and no write outstanding
WriteFailed(s) == writing_[s] /\ writePending[s] = <<>>

\* every message enqueued for s was handed to the transport and s is idle
DrainedAndIdle(s) ==
    /\ wire[s] = enqueued[s]
    /\ message_queue_[s] = <<>>
    /\ ~writing_[s]

\* C31: unless a write of the session fails, every message enqueued to it is
\* eventually handed to the transport, and once nothing more is enqueued the
\* session is idle for good: queue empty and writing flag false.
C31_QueueDrains ==
    \A s \in SessionIds : <>[](DrainedAndIdle(s) \/ WriteFailed(s))

\* reached: a session was enqueued three messages, all of them were handed to
\* the transport, and it is idle
C31_Witness ==
    \E s \in SessionIds : Len(enqueued[s]) >= 3 /\ DrainedAndIdle(s) /\ writePending[s] = <<>>

-----------------------------------------------------------------------------
(* SpecStall: the server with one client that never takes its data, so that  *)
(* the first write of its session never completes                           *)

StalledSession == Min(SessionIds)

StallNext ==
    \/ \E ec \in {"ok", "error"} : ServerOnAccept(ec)
    \/ \E s \in SessionIds, ec \in {"ok", "error"} : SessionOnAccept(s, ec)
    \/ \E s \in SessionIds, received \in InboundMessages : SessionOnRead(s, "ok", received)
    \/ \E s \in SessionIds, ec \in {"closed", "error"} : SessionOnRead(s, ec, <<>>)
    \/ \E s \in SessionIds \ {StalledSession}, ec \in {"ok", "error"} : SessionOnWrite(s, ec)

\* the writes of the other sessions keep completing
SpecStall ==
    /\ Init
    /\ [][StallNext]_vars
    /\ \A s \in SessionIds \ {StalledSession} : WF_vars(SessionOnWrite(s, "ok"))

\* C33: with the write of one session outstanding for ever, a message read from
\* any session is answered in the step that reads it, a successful booking
\* enqueues the update to every registered session in that same step, and
\* every other session still has all its messages handed to the transport.
C33_NoBlockingOnStalledSession ==
    /\ [][Dispatches =>
             /\ NewlyEnqueued(last'.session) # <<>>
             /\ NewlyEnqueued(last'.session)[1] = last'.ret.message
             /\ last'.ret.shouldBroadcast =>
                   \A s \in sessions_ :
                       /\ NewlyEnqueued(s) # <<>>
                       /\ NewlyEnqueued(s)[Len(NewlyEnqueued(s))] = FormatUpdateData(shows')]_vars
    /\ \A s \in SessionIds \ {StalledSession} :
          <>[](DrainedAndIdle(s) \/ WriteFailed(s))

\* reached: the stalled session has its first write outstanding and the update
\* of a booking waiting behind it, while the session that booked was written
\* its snapshot, its response and the update and is idle
C33_Witness ==
    /\ writePending[StalledSession] # <<>>
    /\ Len(wire[StalledSession]) = 1
    /\ message_queue_[StalledSession] # <<>>
    /\ StalledSession \in sessions_
    /\ \E s \in SessionIds \ {StalledSession} :
          /\ DrainedAndIdle(s)
          /\ Len(wire[s]) >= 3
          /\ sold # <<>>
          /\ sold[Len(sold)].session = s

-----------------------------------------------------------------------------
(* What a reader sees of a reservation in progress, under SpecThreads *)

\* C34: a getAvailableSeats call that has returned shows, for every bookSeats
\* call that succeeded, either all of its seats as available or none of them.
C34_NoPartialReservation ==
    pc[Reader] = "done" =>
        \A c \in Callers :
            local[c].ret = "true" =>
                \/ Range(local[c].seatNumbers) \subseteq Range(local[Reader].availableSeats)
                \/ Range(local[c].seatNumbers) \cap Range(local[Reader].availableSeats) = {}

\* reached: the reader entered getAvailableSeats while a caller was inside a
\* bookSeats of three seats that succeeded, and it returned none of the three
C34_Witness ==
    /\ pc[Reader] = "done"
    /\ \E c \in Callers :
          /\ local[c].ret = "true"
          /\ c \in local[Reader].during
          /\ Cardinality(Range(local[c].seatNumbers)) = 3
          /\ Range(local[c].seatNumbers) \cap Range(local[Reader].availableSeats) = {}

-----------------------------------------------------------------------------
(* SpecShows: threads that call bookSeats and getAvailableSeats on the shows *)
(* of the catalog, each call taken as lock acquisition and body             *)

ShowCallSeatLists == {<<3, 4>>, <<4>>}

ShowsInit ==
    /\ shows = MainShows
    /\ cshows = <<>>
    /\ ClientOff
    /\ last = NoCall
    /\ HubOff
    /\ pc = [t \in Threads |-> "idle"]
    /\ local = [t \in Threads |-> NoWork]
    /\ seatsMutex = [i \in 1..Len(MainShows) |-> Unlocked]

\* thread t enters shows[i].bookSeats(seatNumbers)
EnterBookSeats(t, i, seatNumbers) ==
    /\ pc[t] = "idle"
    /\ pc' = [pc EXCEPT ![t] = "book_lock"]
    /\ local' = [local EXCEPT ![t] = [NoWork EXCEPT !.show = i,
                                                    !.seatNumbers = seatNumbers]]
    /\ UNCHANGED <<ledgerVars, hubVars, seatsMutex>>

\* thread t enters shows[i].getAvailableSeats()
EnterGetAvailableSeats(t, i) ==
    /\ pc[t] = "idle"
    /\ pc' = [pc EXCEPT ![t] = "get_lock"]
    /\ local' = [local EXCEPT ![t] = [NoWork EXCEPT !.show = i]]
    /\ UNCHANGED <<ledgerVars, hubVars, seatsMutex>>

\* bookSeats: both loops and the return, which releases the lock
ReturnBookSeats(t) ==
    /\ pc[t] = "book_body"
    /\ shows' = [shows EXCEPT ![local[t].show].seats =
                    BookSeats(@, local[t].seatNumbers).seats]
    /\ seatsMutex' = UniqueLockReleased(seatsMutex, MutexOf(local[t].show), t)
    /\ pc' = [pc EXCEPT ![t] = "idle"]
    /\ local' = [local EXCEPT ![t] = NoWork]
    /\ UNCHANGED <<clientVars, last, hubVars>>

\* getAvailableSeats: the loop and the return, which releases the lock
ReturnGetAvailableSeats(t) ==
    /\ pc[t] = "get_body"
    /\ seatsMutex' = SharedLockReleased(seatsMutex, MutexOf(local[t].show), t)
    /\ pc' = [pc EXCEPT ![t] = "idle"]
    /\ local' = [local EXCEPT ![t] = NoWork]
    /\ UNCHANGED <<ledgerVars, hubVars>>

ShowsNext ==
    \/ \E t \in Threads, i \in 1..Len(MainShows), seatNumbers \in ShowCallSeatLists :
          EnterBookSeats(t, i, seatNumbers)
    \/ \E t \in Threads, i \in 1..Len(MainShows) : EnterGetAvailableSeats(t, i)
    \/ \E t \in Threads : BookSeatsAcquire(t)
    \/ \E t \in Threads : GetAvailableSeatsAcquire(t)
    \/ \E t \in Threads : ReturnBookSeats(t)
    \/ \E t \in Threads : ReturnGetAvailableSeats(t)

SpecShows == ShowsInit /\ [][ShowsNext]_vars

\* thread u is past the lock acquisition of a call on show i
InsideBookSeats(u, i) == pc[u] = "book_body" /\ local[u].show = i
InsideGetAvailableSeats(u, i) == pc[u] = "get_body" /\ local[u].show = i

\* C35: a bookSeats call that waits for the lock of its show can take it
\* whenever no other thread is inside a call on that same show, whatever runs
\* on the other shows; and a getAvailableSeats call can take the lock of its
\* show whenever no other thread is inside bookSeats on that show, other
\* readers of the show notwithstanding.
C35_PerShowSharedLocks ==
    \A t \in Threads :
        /\ (/\ pc[t] = "book_lock"
            /\ \A u \in Threads \ {t} : /\ ~InsideBookSeats(u, local[t].show)
                                        /\ ~InsideGetAvailableSeats(u, local[t].show))
           => ENABLED BookSeatsAcquire(t)
        /\ (/\ pc[t] = "get_lock"
            /\ \A u \in Threads \ {t} : ~InsideBookSeats(u, local[t].show))
           => ENABLED GetAvailableSeatsAcquire(t)

\* reached: one thread is inside bookSeats on a show while two others are both
\* inside getAvailableSeats on another show
C35_Witness ==
    \E t, u, v \in Threads : \E i, j \in 1..Len(shows) :
        /\ u # v
        /\ i # j
        /\ InsideBookSeats(t, i)
        /\ InsideGetAvailableSeats(u, j)
        /\ InsideGetAvailableSeats(v, j)

-----------------------------------------------------------------------------
(* What a call leaves alone, under SpecBooking *)

\* C36: after a processBooking or handleMessage call the catalog has the same
\* shows in the same order with the same theater, movie and dateTime, and the
\* only show whose seats may differ is the first one that matches the theater
\* and movie of a request with at least three fields.
C36_AtMostOneShowChanges ==
    last.op \in {"processBooking", "handleMessage"} =>
        /\ Len(shows) = Len(last.before)
        /\ \A i \in 1..Len(shows) :
              /\ shows[i].theater = last.before[i].theater
              /\ shows[i].movie = last.before[i].movie
              /\ shows[i].dateTime = last.before[i].dateTime
              /\ shows[i].seats # last.before[i].seats =>
                    /\ Len(Fields(last.arg)) >= 3
                    /\ Matching(last.arg, last.before) # {}
                    /\ i = Min(Matching(last.arg, last.before))

\* reached: a booking succeeded on a catalog that holds two shows with the
\* requested theater and movie; the first changed and the second did not
C36_Witness ==
    /\ last.op = "processBooking"
    /\ last.ret.success
    /\ Cardinality(Matching(last.arg, last.before)) = 2
    /\ \E i, j \in Matching(last.arg, last.before) :
          /\ i < j
          /\ shows[i].seats # last.before[i].seats
          /\ shows[j].seats = last.before[j].seats

-----------------------------------------------------------------------------
(* Bookings are permanent, under Spec *)

\* C37: no step of the server makes a booked seat available: every seat that is
\* booked before a step is booked after it, and the catalog keeps its length.
C37_BookingsArePermanent ==
    [][/\ Len(shows') = Len(shows)
       /\ \A i \in 1..Len(shows) : \A n \in 1..Len(shows[i].seats) :
             shows[i].seats[n] => shows'[i].seats[n]]_vars

\* reached: after a successful booking and a second message that booked
\* nothing, the session was disconnected, and the seats sold are still booked
C37_Witness ==
    /\ Len(sold) = 1
    /\ reads = 2
    /\ last.op = "on_read"
    /\ last.ec # "ok"
    /\ sessions_ = {}
    /\ shows # MainShows

-----------------------------------------------------------------------------
(* What one session is sent over time, under Spec *)

\* a line of a snapshot that describes its shows: a theater, a movie or a seat line
IsShowLine(line) ==
    \/ StartsWith(line, THEATER_PREFIX)
    \/ StartsWith(line, MOVIE_PREFIX)
    \/ StartsWith(line, AVAILABLE_SEATS)

\* the show lines of a message, in the order the message carries them
ShowLines(message) == SelectSeq(Lines(message), IsShowLine)

\* the seats a seatStatus vector marks available
SeatsOffered(seatStatus) == {n \in 1..Len(seatStatus) : ~seatStatus[n]}

\* the seat numbers a seat line lists, as the client reads them
ListedSeats(line) == SeatsOffered(ParseSeatsLine(line))

\* the later snapshot has the shows of the earlier one, line by line, and no
\* seat line of it lists a seat that the same line of the earlier one did not
SnapshotNarrows(earlier, later) ==
    \E seen \in {<<ShowLines(earlier), ShowLines(later)>>} :
        /\ Len(seen[1]) = Len(seen[2])
        /\ \A k \in 1..Len(seen[1]) :
              \/ seen[2][k] = seen[1][k]
              \/ /\ StartsWith(seen[1][k], AVAILABLE_SEATS)
                 /\ StartsWith(seen[2][k], AVAILABLE_SEATS)
                 /\ ListedSeats(seen[2][k]) \subseteq ListedSeats(seen[1][k])

-----------------------------------------------------------------------------
(* Inbound messages and the registry, under Spec *)

\* C39: an inbound message is dispatched to the router only for a session that
\* is in the registry when the message is read, so a session that was removed
\* books no seat and triggers no broadcast.
C39_DispatchOnlyForRegistered ==
    [][Dispatches =>
          /\ last'.session \in sessions_
          /\ (shows' # shows \/ last'.ret.shouldBroadcast) => last'.session \in sessions_']_vars

-----------------------------------------------------------------------------
(* SpecOutcome: one client (its main thread and its listener thread) booking  *)
(* seats over its connection to the server                                    *)

\* passes of the main thread through case 2 of its menu loop
MaxRounds == 2

\* the main thread of the client
ClientMain == 1

\* seat selections the user makes in CinemaUI::selectSeats
UiSeatLists == {<<3, 4>>, <<4>>}

RECURSIVE SeatSuffix(_, _)
\* for (uint8_t seat : selectedSeats) booking += "," + std::to_string(seat)
SeatSuffix(selectedSeats, k) ==
    IF k > Len(selectedSeats) THEN <<>>
    ELSE <<",">> \o to_string(selectedSeats[k]) \o SeatSuffix(selectedSeats, k + 1)

\* CinemaUI::performBooking: the booking text of every confirmed selection of
\* seats the client's copy of the shows offers
PerformBooking(shows_) ==
    {shows_[n].theater \o <<",">> \o shows_[n].movie \o SeatSuffix(selectedSeats, 1) :
        <<n, selectedSeats>> \in
            {c \in (1..Len(shows_)) \X UiSeatLists :
                \A k \in 1..Len(c[2]) : c[2][k] \in ClientAvailable(shows_[c[1]])}}

\* CinemaClient::isCinemaDataStream
IsCinemaDataStream(response) ==
    \/ Find(response, CINEMA_DATA_STREAM_TAG) # npos
    \/ Find(response, UPDATED_CINEMA_DATA_TAG) # npos

\* the test of CinemaClient::processMessage for a booking response
IsBookingResponse(response) ==
    Find(response, SUCCESS_TAG) # npos \/ Find(response, ERROR_TAG) # npos

\* after client.connect and the first sendMessage("get_data") of main: the
\* server has written the initial snapshot, the data request is on its way
OutcomeInit ==
    /\ shows = MainShows
    /\ cshows = <<>>
    /\ lastBookingResponse_ = <<>>
    /\ ws_ = [toServer |-> <<MsgGetData>>, toClient |-> <<FormatCinemaData(MainShows)>>]
    /\ last = NoCall
    /\ sessions_ = {}
    /\ message_queue_ = <<>>
    /\ writing_ = <<>>
    /\ acceptPending = {}
    /\ readPending = {}
    /\ writePending = <<>>
    /\ wire = <<<<FormatCinemaData(MainShows)>>>>
    /\ enqueued = <<>>
    /\ sold = <<>>
    /\ created = 0
    /\ reads = 0
    /\ pc = <<"menu">>
    /\ local = <<[bookingData |-> <<>>, rounds |-> 0, bookings |-> 0]>>
    /\ seatsMutex = <<>>

\* case 2 of main: client.sendMessage("get_data"), then the thread sleeps
MainSendGetData ==
    /\ pc[ClientMain] = "menu"
    /\ local[ClientMain].rounds < MaxRounds
    /\ ws_' = [ws_ EXCEPT !.toServer = Append(@, MsgGetData)]
    /\ pc' = [pc EXCEPT ![ClientMain] = "fetched"]
    /\ local' = [local EXCEPT ![ClientMain].rounds = @ + 1]
    /\ UNCHANGED <<shows, cshows, lastBookingResponse_, last, hubVars, seatsMutex>>

\* case 2 of main, after the sleep: shows = client.getShows(); without shows the
\* case ends; bookingData = ui.performBooking(shows), empty when the user
\* cancels; otherwise client.sendMessage(bookingData), then the thread sleeps
MainPerformBooking ==
    /\ pc[ClientMain] = "fetched"
    /\ \E bookingData \in (IF cshows = <<>> THEN {} ELSE PerformBooking(cshows)) \cup {<<>>} :
          IF bookingData = <<>>
          THEN /\ pc' = [pc EXCEPT ![ClientMain] = "menu"]
               /\ UNCHANGED <<ws_, local>>
          ELSE /\ ws_' = [ws_ EXCEPT !.toServer = Append(@, bookingData)]
               /\ local' = [local EXCEPT ![ClientMain].bookingData = bookingData,
                                         ![ClientMain].bookings = @ + 1]
               /\ pc' = [pc EXCEPT ![ClientMain] = "sent"]
    /\ UNCHANGED <<shows, cshows, lastBookingResponse_, last, hubVars, seatsMutex>>

\* case 2 of main, after the sleep that follows the booking: serverResponse =
\* client.getLastBookingResponse(); success is whether it contains "SUCCESS:";
\* ui.showBookingResult(success)
MainShowBookingResult ==
    /\ pc[ClientMain] = "sent"
    /\ last' = [op |-> "showBookingResult", arg |-> local[ClientMain].bookings,
                before |-> lastBookingResponse_,
                ret |-> Find(lastBookingResponse_, SUCCESS_TAG) # npos]
    /\ pc' = [pc EXCEPT ![ClientMain] = "menu"]
    /\ UNCHANGED <<shows, clientVars, hubVars, local, seatsMutex>>

\* one pass of the listener thread: ws_.read, then processMessage(response)
ListenerProcessMessage ==
    /\ ws_.toClient # <<>>
    /\ \E response \in {Head(ws_.toClient)} :
          /\ lastBookingResponse_' =
                IF IsBookingResponse(response) THEN response ELSE lastBookingResponse_
          /\ cshows' =
                IF IsCinemaDataStream(response) THEN ParseAndUpdateShows(response) ELSE cshows
    /\ ws_' = [ws_ EXCEPT !.toClient = Tail(@)]
    /\ UNCHANGED <<shows, last, hubVars, threadVars>>

\* the server reads the client's next message: on_read hands it to the message
\* callback, sends the response and, after a booking, the update broadcast
OutcomeServerOnRead ==
    /\ ws_.toServer # <<>>
    /\ \E result \in {HandleMessage(Head(ws_.toServer), shows)} :
       \E sent \in {<<result.message>> \o
                    (IF result.shouldBroadcast THEN <<FormatUpdateData(result.shows)>>
                     ELSE <<>>)} :
          /\ shows' = result.shows
          /\ wire' = [wire EXCEPT ![1] = @ \o sent]
          /\ ws_' = [toServer |-> Tail(ws_.toServer), toClient |-> ws_.toClient \o sent]
    /\ UNCHANGED <<cshows, lastBookingResponse_, last, sessions_, message_queue_,
                   writing_, acceptPending, readPending, writePending, enqueued,
                   sold, created, reads, threadVars>>

OutcomeNext ==
    \/ MainSendGetData
    \/ MainPerformBooking
    \/ MainShowBookingResult
    \/ ListenerProcessMessage
    \/ OutcomeServerOnRead

SpecOutcome == OutcomeInit /\ [][OutcomeNext]_vars

\* the responses the server has sent to the client's bookings, in order
BookingResponses == SelectSeq(wire[1], IsBookingResponse)

\* C40: the outcome the main thread reports after submitting a booking is the
\* outcome of that booking: once the server has answered the booking, the
\* reported success agrees with whether that answer is a SUCCESS response.
C40_ReportedOutcomeIsOfThisBooking ==
    (last.op = "showBookingResult" /\ Len(BookingResponses) >= last.arg) =>
        last.ret = (Find(BookingResponses[last.arg], SUCCESS_TAG) # npos)

====
